---- MODULE Spec2Model ----
(***************************************************************************)
(* Context assembly (backend/app/core/context_builder.py), the stores it   *)
(* reads (Redis working memory, Pinecone index, relational tables) and the *)
(* other writers of those stores: the onboarding interview, the fact       *)
(* extraction job and the consolidation of /kb/apply (api/knowledge.py).   *)
(*                                                                         *)
(* Python values are tagged records [kind, items]; a string is the         *)
(* sequence of its tokens, a dict the sequence of its <<key, value>>       *)
(* pairs, a list the sequence of its elements.                             *)
(***************************************************************************)
EXTENDS Integers, Sequences, FiniteSets, TLC

\* ------------------------------------------------------------------ bounds
MaxUuid == 2
MaxBatch == 2
MaxUpdates == 3
MaxQuestions == 2

\* ------------------------------------------------------- program constants
KB_SUMMARY_TTL == 3600
DEFAULT_TTL == 86400
STATE_TTL == 300
TOP_K == 5
Q_TOP_LIMIT == 10
FMT_LIMIT == 5
MSG_LIMIT == 20
\* 1e-6, confidences being held in millionths
EPSILON == 1

\* ------------------------------------------------------------ Python values
PyNone == [kind |-> "none", items |-> <<>>]
PyExc == [kind |-> "exc", items |-> <<>>]
PyStr(tokens) == [kind |-> "str", items |-> tokens]
PyList(elems) == [kind |-> "list", items |-> elems]
PyDict(pairs) == [kind |-> "dict", items |-> pairs]
PyInt(n) == [kind |-> "int", items |-> <<n>>]
PyBool(b) == [kind |-> "bool", items |-> <<b>>]

\* bool(v): None, "", [] and {} are falsy; an exception object is truthy
Truthy(v) ==
    \/ v.kind = "exc"
    \/ v.kind \in {"str", "list", "dict"} /\ Len(v.items) > 0
    \/ v.kind = "int" /\ v.items[1] # 0
    \/ v.kind = "bool" /\ v.items[1]

\* v or d
PyOr(v, d) == IF Truthy(v) THEN v ELSE d

\* d[key] of a dict value
DictGet(d, key) ==
    LET i == CHOOSE j \in 1..Len(d.items) : d.items[j][1] = key
    IN d.items[i][2]

\* d[key] = value
DictSet(d, key, value) ==
    PyDict([j \in 1..Len(d.items) |->
                IF d.items[j][1] = key THEN <<key, value>> ELSE d.items[j]])

DictKeys(d) == [j \in 1..Len(d.items) |-> d.items[j][1]]

Take(s, n) == IF Len(s) <= n THEN s ELSE SubSeq(s, 1, n)

\* sep.join(parts), parts a sequence of token sequences
RECURSIVE Join(_, _)
Join(sep, parts) ==
    IF Len(parts) = 0 THEN <<>>
    ELSE IF Len(parts) = 1 THEN parts[1]
    ELSE parts[1] \o sep \o Join(sep, Tail(parts))

\* json.dumps / json.loads: the encoded text is never the empty string
Dumps(v) == <<"json", v>>
Loads(text) == text[2]

\* ------------------------------------------------------------------- domain
Users == {"1", "2"}
Layers == {"character", "knowledge_summary", "working_memory", "episodic"}
LayerOrder == <<"character", "knowledge_summary", "working_memory", "episodic">>

\* MODEL_MAP of api/knowledge.py, in the order context_builder queries them
Domains == <<"identity", "goals", "projects", "finances", "relationships", "patterns">>
DomainSet == {Domains[i] : i \in 1..Len(Domains)}
DomainLabel(d) ==
    CASE d = "identity" -> "Identity: "
      [] d = "goals" -> "Goals: "
      [] d = "projects" -> "Projects: "
      [] d = "finances" -> "Finances: "
      [] d = "relationships" -> "Relationships: "
      [] d = "patterns" -> "Patterns: "

Queries == {PyNone, PyStr(<<>>), PyStr(<<"q">>)}

\* ------------------------------------------------------------ Redis entries
NoEntry == [present |-> FALSE, data |-> <<>>, ttl |-> 0]
Entry(data, ttl) == [present |-> TRUE, data |-> data, ttl |-> ttl]

WorkingKey(u, key) == <<"working", u, key>>
MessagesKey(u) == <<"messages", u>>
StateKey(u) == <<"state", u>>
RedisKeys ==
    {WorkingKey(u, "kb_summary") : u \in Users}
    \cup {WorkingKey(u, "kb_entries") : u \in Users}
    \cup {WorkingKey(u, "onboarding") : u \in Users}
    \cup {MessagesKey(u) : u \in Users}
    \cup {StateKey(u) : u \in Users}

VARIABLES
    settings,   \* [pinecone_api_key, openai_api_key]: is the key set
    user_rows,  \* rows of the users table
    tables,     \* [domain -> set of knowledge rows]
    redis,      \* [key -> entry]
    index,      \* vectors of the Pinecone index
    pc,         \* build_context: idle, create, gather, returned, raised
    req,        \* [user_id, query] of the running build_context call
    tpc,        \* [layer -> position of its task]
    tres,       \* [layer -> result of its task]
    tloc,       \* [layer -> local value of its task]
    bundle,     \* the dict build_context returned
    deadline,   \* the 300 ms target has elapsed during this call
    failed,     \* [layer -> a call of its fetch raised]
    calls,      \* calls issued during this build_context call
    observed,   \* the cache entry the knowledge-summary layer read
    ob,         \* the continue_onboarding request in progress
    xf,         \* the run_extract_facts job in progress
    uuid,       \* number of uuid4 values drawn
    audit,      \* rows of knowledge_updates, in order of creation
    clock,      \* datetime.utcnow()
    ap,         \* [caller -> its apply_updates request]
    budget,     \* updates the callers may still submit
    ef,         \* the extract_facts call in progress
    ws,         \* the websocket_voice handler and its client
    nt,         \* the push counter, the pending queue and their writers
    kb          \* [request -> its call of a kb_entries endpoint]

vars == <<settings, user_rows, tables, redis, index, pc, req, tpc, tres,
          tloc, bundle, deadline, failed, calls, observed, ob, xf, uuid,
          audit, clock, ap, budget, ef, ws, nt, kb>>

ctxVars == <<pc, req, tpc, tres, tloc, bundle, deadline, failed, calls, observed>>
applyVars == <<audit, clock, ap, budget>>
sideVars == <<ef, ws, nt, kb>>
fixedVars == <<settings, user_rows, tables, applyVars, sideVars>>
procVars == <<ob, xf, uuid>>
storeVars == <<fixedVars, redis, index, procVars>>

\* ------------------------------------------------------------ initial stores
UserRow(u) == [id |-> u, full_name |-> "Ann", email |-> "ann@x", trust_level |-> "consultant"]

KRow(id, u, fname, fval, conf, src, ts) ==
    [id |-> id, user_id |-> u, field_name |-> fname, field_value |-> fval,
     confidence |-> conf, source |-> src, last_updated |-> ts]

EmptyTables == [d \in DomainSet |-> {}]

\* rows as apply_updates leaves them: confidence in millionths
SampleTables ==
    [d \in DomainSet |->
        CASE d = "identity" -> {KRow(1, "1", "name", "Ann", 900000, "onboarding", 1)}
          [] d = "goals" -> {KRow(2, "1", "goal", "run", 500000, "conversation", 2),
                             KRow(3, "1", "sport", "ski", 500000, "conversation", 3)}
          [] OTHER -> {}]

Message(text) == PyDict(<< <<"role", PyStr(<<"user">>)>>, <<"content", PyStr(<<text>>)>> >>)

InitRedis ==
    [k \in RedisKeys |->
        CASE k = MessagesKey("1") -> Entry(<<Dumps(Message("hi"))>>, DEFAULT_TTL)
          [] k = StateKey("1") -> Entry(Dumps(PyDict(<< <<"state", PyStr(<<"working">>)>> >>)), STATE_TTL)
          [] OTHER -> NoEntry]

\* str(uuid4()), number n
Uuid(n) == PyStr(<<"uuid", ToString(n)>>)

Vector(id, ns, owner) == [id |-> id, namespace |-> ns, user_id |-> owner]

Callers == {"c1", "c2"}
\* what a request ended with: the status, the count returned with 200, and
\* the state of the loop then (updates counted, updates never reached)
Response(status, applied, counted, skipped) ==
    [status |-> status, applied |-> applied, counted |-> counted, skipped |-> skipped]
NoResponse == Response("none", 0, 0, 0)
NoUpdate ==
    [domain |-> "", user_id |-> "", field_name |-> "", field_value |-> "",
     confidence |-> 0, source |-> "", conversation_id |-> <<>>]
ApIdle(resp) ==
    [pc |-> "idle", left |-> 0, u |-> NoUpdate, applied |-> 0, existing |-> <<>>,
     stamp |-> 0, resp |-> resp, last |-> "none", base |-> 0]

\* the request a has ended with resp; base keeps the length the audit log
\* had when the request began
Ended(a, resp) == [ApIdle(resp) EXCEPT !.base = a.base]

ObIdle(status) ==
    [pc |-> "idle", user_id |-> "1", answer |-> PyNone, session |-> PyNone,
     facts |-> <<>>, entries |-> <<>>, combined |-> PyNone, status |-> status]

XfIdle == [pc |-> "idle", user_id |-> "1", facts |-> <<>>, entries |-> <<>>, todo |-> <<>>]

\* no call of extract_facts is in progress
EfIdle ==
    [pc |-> "idle", transcript |-> PyNone, reply |-> PyNone, path |-> "none",
     result |-> PyNone]

WsIdle ==
    [pc |-> "idle", i |-> 0, client |-> "none", buffer |-> 0, chunks |-> 0, acks |-> 0,
     stage |-> "idle", events |-> <<>>, transcript |-> FALSE, audio |-> 0, ended |-> "none"]
NtProcs == {"n1", "n2"}
NtProcIdle == [pc |-> "idle", kind |-> "none", count |-> 0, status |-> "none"]
NtIdle ==
    [counter |-> 0, queued |-> 0, tokens |-> TRUE, procs |-> [p \in NtProcs |-> NtProcIdle]]
KbProcs == {"k1", "k2"}
KbProcIdle ==
    [pc |-> "idle", op |-> "none", id |-> PyNone, combined |-> PyNone, status |-> "none"]
KbIdle == [procs |-> [p \in KbProcs |-> KbProcIdle], reported |-> {}, calls |-> 0]

\* the services next to context building are at rest
InitSide ==
    /\ ef = EfIdle
    /\ ws = WsIdle
    /\ nt = NtIdle
    /\ kb = KbIdle

NoCalls == [embed |-> 0, search |-> 0, db |-> 0, cache_set |-> 0]
NothingObserved == [cache |-> NoEntry, read |-> FALSE]

InitCtx ==
    /\ pc = "idle"
    /\ req = [user_id |-> "1", query |-> PyNone]
    /\ tpc = [l \in Layers |-> "notcreated"]
    /\ tres = [l \in Layers |-> PyNone]
    /\ tloc = [l \in Layers |-> PyNone]
    /\ bundle = PyNone
    /\ deadline = FALSE
    /\ failed = [l \in Layers |-> FALSE]
    /\ calls = NoCalls
    /\ observed = NothingObserved

\* the stores when the process is up: the users table and the knowledge
\* tables hold rows, Redis holds the recent messages of user 1
InitStores ==
    /\ user_rows = {UserRow("1")}
    /\ tables = SampleTables
    /\ audit = <<>>
    /\ clock = 4
    /\ ap = [c \in Callers |-> ApIdle(NoResponse)]
    /\ budget = 0
    /\ redis = InitRedis
    /\ ob = ObIdle("none")
    /\ xf = XfIdle
    /\ InitSide

\* both vectors were upserted by earlier extraction jobs
Init ==
    /\ settings \in [pinecone_api_key : BOOLEAN, openai_api_key : BOOLEAN]
    /\ index = {Vector(Uuid(1), "default", "1"), Vector(Uuid(2), "default", "2")}
    /\ uuid = 2
    /\ InitStores
    /\ InitCtx

\* --------------------------------------------------------------- Redis client
\* RedisClient.get_working_memory: json.loads(data) if data else None
GetWorkingMemory(r, u, key) ==
    LET e == r[WorkingKey(u, key)]
    IN IF e.present /\ Len(e.data) > 0 THEN Loads(e.data) ELSE PyNone

\* RedisClient.set_working_memory: setex(full_key, ttl_seconds, json.dumps(value))
SetWorkingMemory(r, u, key, value, ttl_seconds) ==
    [r EXCEPT ![WorkingKey(u, key)] = Entry(Dumps(value), ttl_seconds)]

\* RedisClient.get_messages: lrange(key, 0, limit - 1), each element decoded
GetMessages(r, u, limit) ==
    LET e == r[MessagesKey(u)]
        raw == IF e.present THEN Take(e.data, limit) ELSE <<>>
    IN PyList([i \in 1..Len(raw) |-> Loads(raw[i])])

\* RedisClient.get_user_state
GetUserState(r, u) ==
    LET e == r[StateKey(u)]
    IN IF e.present /\ Len(e.data) > 0 THEN Loads(e.data) ELSE PyNone

\* ------------------------------------------------------------- build_context
\* build_context is called; nothing has run yet
Call(u, q) ==
    /\ pc \in {"idle", "returned"}
    /\ pc' = "create"
    /\ req' = [user_id |-> u, query |-> q]
    /\ tpc' = [l \in Layers |-> "notcreated"]
    /\ tres' = [l \in Layers |-> PyNone]
    /\ tloc' = [l \in Layers |-> PyNone]
    /\ bundle' = PyNone
    /\ deadline' = FALSE
    /\ failed' = [l \in Layers |-> FALSE]
    /\ calls' = NoCalls
    /\ observed' = NothingObserved
    /\ UNCHANGED storeVars

Created(t) == {l \in Layers : t[l] # "notcreated"}

\* asyncio.create_task for the next layer of the list, in source order
CreateTask(l) ==
    /\ pc = "create"
    /\ Cardinality(Created(tpc)) < Len(LayerOrder)
    /\ l = LayerOrder[Cardinality(Created(tpc)) + 1]
    /\ tpc' = [tpc EXCEPT ![l] = "ready"]
    /\ UNCHANGED <<pc, req, tres, tloc, bundle, deadline, failed, calls, observed>>
    /\ UNCHANGED storeVars

\* await asyncio.gather(...): build_context suspends, the tasks may run
AwaitGather ==
    /\ pc = "create"
    /\ Created(tpc) = Layers
    /\ pc' = "gather"
    /\ UNCHANGED <<req, tpc, tres, tloc, bundle, deadline, failed, calls, observed>>
    /\ UNCHANGED storeVars

\* a created task gets its first turn once build_context has suspended
CanStart(l) == pc = "gather" /\ tpc[l] = "ready"

\* the task of layer l ends with a result, or with an exception
Finish(l, value) ==
    /\ tpc' = [tpc EXCEPT ![l] = "done"]
    /\ tres' = [tres EXCEPT ![l] = value]

Raise(l) ==
    /\ tpc' = [tpc EXCEPT ![l] = "failed"]
    /\ tres' = [tres EXCEPT ![l] = PyExc]

\* gather taken for a wait that ends with the first finished task
GatherComplete_first(t) == \E l \in Layers : t[l] \in {"done", "failed"}

\* gather is over when every task has a result or an exception
GatherComplete(t) == \A l \in Layers : t[l] \in {"done", "failed"}

\* gather without return_exceptions: the first exception is raised
GatherResult_propagate(t, r) ==
    [raised |-> \E l \in Layers : t[l] = "failed",
     done |-> [i \in 1..Len(LayerOrder) |-> r[LayerOrder[i]]]]

\* gather(*tasks, return_exceptions=True): exceptions are results, none is raised
GatherResult(t, r) ==
    [raised |-> FALSE, done |-> [i \in 1..Len(LayerOrder) |-> r[LayerOrder[i]]]]

\* one exception among the results voids them all
Unpack_allOrNothing(done) ==
    IF Len(done) = 4 /\ \A i \in 1..4 : done[i].kind # "exc"
    THEN done ELSE [i \in 1..4 |-> PyDict(<<>>)]

\* character, knowledge_summary, working_memory, episodic = done, else ({},) * 4
Unpack(done) ==
    IF Len(done) = 4 THEN done ELSE [i \in 1..4 |-> PyDict(<<>>)]

\* the dict of lines 208-213
MakeBundle(done) ==
    LET u == Unpack(done)
    IN PyDict(<< <<"character", PyOr(u[1], PyDict(<<>>))>>,
                 <<"knowledge_summary", PyOr(u[2], PyDict(<<>>))>>,
                 <<"working_memory", PyOr(u[3], PyDict(<<>>))>>,
                 <<"episodic", PyOr(u[4], PyList(<<>>))>> >>)

Return ==
    /\ pc = "gather"
    /\ GatherComplete(tpc)
    /\ LET g == GatherResult(tpc, tres)
       IN IF g.raised
          THEN pc' = "raised" /\ bundle' = PyNone
          ELSE pc' = "returned" /\ bundle' = MakeBundle(g.done)
    /\ UNCHANGED <<req, tpc, tres, tloc, deadline, failed, calls, observed>>
    /\ UNCHANGED storeVars

\* the latency target of the call passes while build_context is suspended
DeadlineElapses ==
    /\ pc = "gather"
    /\ ~deadline
    /\ deadline' = TRUE
    /\ UNCHANGED <<pc, req, tpc, tres, tloc, bundle, failed, calls, observed>>
    /\ UNCHANGED storeVars

\* an awaited call of layer l never completes
AwaitStates == {"get", "cache_get", "db", "cache_set", "get_messages", "get_state", "embed"}

TaskHang(l) ==
    /\ tpc[l] \in AwaitStates
    /\ tpc' = [tpc EXCEPT ![l] = "hung"]
    /\ UNCHANGED <<pc, req, tres, tloc, bundle, deadline, failed, calls, observed>>
    /\ UNCHANGED storeVars

\* ---------------------------------------------------------- _fetch_character
Profile(row) ==
    PyDict(<< <<"user_id", PyStr(<<row.id>>)>>,
              <<"full_name", PyStr(<<row.full_name>>)>>,
              <<"email", PyStr(<<row.email>>)>>,
              <<"trust_level", PyStr(<<row.trust_level>>)>> >>)

\* session.get(User, user_id), then {} or the profile dict
FetchCharacter(rows, u) ==
    IF \E r \in rows : r.id = u
    THEN Profile(CHOOSE r \in rows : r.id = u)
    ELSE PyDict(<<>>)

ChStart ==
    /\ CanStart("character")
    /\ tpc' = [tpc EXCEPT !["character"] = "get"]
    /\ UNCHANGED <<pc, req, tres, tloc, bundle, deadline, failed, calls, observed>>
    /\ UNCHANGED storeVars

ChGetDone ==
    /\ tpc["character"] = "get"
    /\ \/ /\ Finish("character", FetchCharacter(user_rows, req.user_id))
          /\ UNCHANGED failed
       \/ /\ Raise("character")
          /\ failed' = [failed EXCEPT !["character"] = TRUE]
    /\ UNCHANGED <<pc, req, tloc, bundle, deadline, calls, observed>>
    /\ UNCHANGED storeVars

\* --------------------------------------------------- _fetch_knowledge_summary
SummaryDict(tokens) == PyDict(<< <<"summary", PyStr(tokens)>> >>)

\* the cache is never taken for a hit
CacheHit_never(cached) == FALSE

\* if cached:
CacheHit(cached) == Truthy(cached)

\* the enumerations of a set of rows by non-increasing confidence
Orderings(S) ==
    {s \in [1..Cardinality(S) -> S] :
        /\ \A i, j \in DOMAIN s : i # j => s[i] # s[j]
        /\ \A i, j \in DOMAIN s : i < j => s[i].confidence >= s[j].confidence}

\* q_top: where user_id == user_id, order_by(desc(confidence)), limit(limit)
QTop(rows, u, limit) ==
    {Take(s, limit) : s \in Orderings({r \in rows : r.user_id = u})}

\* f"{conf:.2f}" of a confidence held in millionths
FormatConf(c) ==
    LET h == (c + 5000) \div 10000
    IN <<ToString(h \div 100), ".", ToString((h % 100) \div 10), ToString(h % 10)>>

\* fmt_list: f"{fname}: {fval} ({conf:.2f})" for the rows with a name and a value
FmtList(rows) ==
    LET ok(r) == r.field_name # "" /\ r.field_value # ""
        kept == SelectSeq(rows, ok)
    IN [i \in 1..Len(kept) |->
            <<kept[i].field_name, ": ", kept[i].field_value, " (">>
            \o FormatConf(kept[i].confidence) \o <<")">>]

\* parts, from domain number i on: a domain without rows adds no segment
RECURSIVE Parts(_, _)
Parts(results, i) ==
    IF i > Len(Domains) THEN <<>>
    ELSE LET fl == FmtList(results[i])
             rest == Parts(results, i + 1)
         IN IF Len(fl) > 0
            THEN << <<DomainLabel(Domains[i])>> \o Join(<<"; ">>, Take(fl, FMT_LIMIT)) >> \o rest
            ELSE rest

\* " | ".join(parts)
Summary(results) == Join(<<" | ">>, Parts(results, 1))

\* what gather(*tasks, return_exceptions=True) can yield for the six q_top
\* tasks, from domain number i on: a query that raised is replaced by []
RECURSIVE QueryResults(_, _, _)
QueryResults(tbls, u, i) ==
    IF i > Len(Domains) THEN {<<>>}
    ELSE {<<x>> \o rest : x \in QTop(tbls[Domains[i]], u, Q_TOP_LIMIT) \cup {<<>>},
                          rest \in QueryResults(tbls, u, i + 1)}

KbStart ==
    /\ CanStart("knowledge_summary")
    /\ tpc' = [tpc EXCEPT !["knowledge_summary"] = "cache_get"]
    /\ UNCHANGED <<pc, req, tres, tloc, bundle, deadline, failed, calls, observed>>
    /\ UNCHANGED storeVars

\* get_working_memory(user_id, "kb_summary") returns or raises
KbCacheGetDone ==
    /\ tpc["knowledge_summary"] = "cache_get"
    /\ \/ /\ LET e == redis[WorkingKey(req.user_id, "kb_summary")]
                 cached == GetWorkingMemory(redis, req.user_id, "kb_summary")
             IN /\ observed' = [cache |-> e, read |-> TRUE]
                /\ IF CacheHit(cached)
                   THEN /\ Finish("knowledge_summary", PyDict(<< <<"summary", cached>> >>))
                        /\ UNCHANGED calls
                   ELSE /\ tpc' = [tpc EXCEPT !["knowledge_summary"] = "db"]
                        /\ calls' = [calls EXCEPT !.db = Len(Domains)]
                        /\ UNCHANGED tres
          /\ UNCHANGED failed
       \/ /\ Finish("knowledge_summary", SummaryDict(<<>>))
          /\ failed' = [failed EXCEPT !["knowledge_summary"] = TRUE]
          /\ UNCHANGED <<calls, observed>>
    /\ UNCHANGED <<pc, req, tloc, bundle, deadline>>
    /\ UNCHANGED storeVars

\* gather of the six q_top tasks returns; the summary is built
KbDbDone ==
    /\ tpc["knowledge_summary"] = "db"
    /\ \E results \in QueryResults(tables, req.user_id, 1) :
          tloc' = [tloc EXCEPT !["knowledge_summary"] = PyStr(Summary(results))]
    /\ tpc' = [tpc EXCEPT !["knowledge_summary"] = "cache_set"]
    /\ calls' = [calls EXCEPT !.cache_set = @ + 1]
    /\ UNCHANGED <<pc, req, tres, bundle, deadline, failed, observed>>
    /\ UNCHANGED storeVars

\* set_working_memory(user_id, "kb_summary", summary, ttl_seconds=3600): a
\* failure is logged and ignored
KbCacheSetDone ==
    /\ tpc["knowledge_summary"] = "cache_set"
    /\ \/ redis' = SetWorkingMemory(redis, req.user_id, "kb_summary",
                                    tloc["knowledge_summary"], KB_SUMMARY_TTL)
       \/ UNCHANGED redis
    /\ Finish("knowledge_summary", PyDict(<< <<"summary", tloc["knowledge_summary"]>> >>))
    /\ UNCHANGED <<pc, req, tloc, bundle, deadline, failed, calls, observed>>
    /\ UNCHANGED <<fixedVars, index, procVars>>

\* ------------------------------------------------------ _fetch_working_memory
WorkingMemory(messages, state) == PyDict(<< <<"messages", messages>>, <<"state", state>> >>)

WmStart ==
    /\ CanStart("working_memory")
    /\ tpc' = [tpc EXCEPT !["working_memory"] = "get_messages"]
    /\ UNCHANGED <<pc, req, tres, tloc, bundle, deadline, failed, calls, observed>>
    /\ UNCHANGED storeVars

WmMessagesDone ==
    /\ tpc["working_memory"] = "get_messages"
    /\ \/ /\ tloc' = [tloc EXCEPT !["working_memory"] = GetMessages(redis, req.user_id, MSG_LIMIT)]
          /\ tpc' = [tpc EXCEPT !["working_memory"] = "get_state"]
          /\ UNCHANGED <<tres, failed>>
       \/ /\ Finish("working_memory", WorkingMemory(PyList(<<>>), PyNone))
          /\ failed' = [failed EXCEPT !["working_memory"] = TRUE]
          /\ UNCHANGED tloc
    /\ UNCHANGED <<pc, req, bundle, deadline, calls, observed>>
    /\ UNCHANGED storeVars

WmStateDone ==
    /\ tpc["working_memory"] = "get_state"
    /\ \/ /\ Finish("working_memory",
                    WorkingMemory(tloc["working_memory"], GetUserState(redis, req.user_id)))
          /\ UNCHANGED failed
       \/ /\ Finish("working_memory", WorkingMemory(PyList(<<>>), PyNone))
          /\ failed' = [failed EXCEPT !["working_memory"] = TRUE]
    /\ UNCHANGED <<pc, req, tloc, bundle, deadline, calls, observed>>
    /\ UNCHANGED storeVars

\* ------------------------------------------------------------ _fetch_episodic
\* the short-circuit without its test of the query
EpisodicSkipped_noQueryTest(cfg, query) == ~cfg.pinecone_api_key

\* if not pinecone_client.is_configured or not query: return []
EpisodicSkipped(cfg, query) == ~cfg.pinecone_api_key \/ ~Truthy(query)

\* the namespace _fetch_episodic searches: pc.search_memories is called
\* without one, so the parameter's default applies
EpisodicNamespace(u) == "default"

Match(v) ==
    PyDict(<< <<"id", v.id>>,
              <<"score", PyStr(<<"score">>)>>,
              <<"metadata", PyDict(<< <<"user_id", PyStr(<<v.user_id>>)>> >>)>> >>)

\* PineconeClient.search_memories: the top_k matches of the namespace, in
\* the order of their scores
SearchMemories(cfg, idx, top_k, namespace) ==
    IF ~cfg.pinecone_api_key THEN {PyList(<<>>)}
    ELSE LET inNs == {v \in idx : v.namespace = namespace}
             n == IF Cardinality(inNs) <= top_k THEN Cardinality(inNs) ELSE top_k
         IN {PyList([i \in 1..n |-> Match(s[i])]) :
                s \in {t \in [1..n -> inNs] : \A i, j \in 1..n : i # j => t[i] # t[j]}}

\* first turn of the task: up to the first call that suspends, if any
EpStart ==
    /\ CanStart("episodic")
    /\ IF EpisodicSkipped(settings, req.query) \/ ~settings.openai_api_key
       THEN /\ Finish("episodic", PyList(<<>>))
            /\ UNCHANGED calls
       ELSE /\ tpc' = [tpc EXCEPT !["episodic"] = "embed"]
            /\ calls' = [calls EXCEPT !.embed = @ + 1]
            /\ UNCHANGED tres
    /\ UNCHANGED <<pc, req, tloc, bundle, deadline, failed, observed>>
    /\ UNCHANGED storeVars

\* the embedding request returns or fails; with an embedding the index is
\* searched, and a failed search is an empty list
EpEmbedDone ==
    /\ tpc["episodic"] = "embed"
    /\ \/ /\ Finish("episodic", PyList(<<>>))
          /\ failed' = [failed EXCEPT !["episodic"] = TRUE]
          /\ UNCHANGED calls
       \/ /\ \E results \in SearchMemories(settings, index, TOP_K, EpisodicNamespace(req.user_id)) :
                Finish("episodic", results)
          /\ calls' = [calls EXCEPT !.search = @ + 1]
          /\ UNCHANGED failed
       \/ /\ Finish("episodic", PyList(<<>>))
          /\ calls' = [calls EXCEPT !.search = @ + 1]
          /\ failed' = [failed EXCEPT !["episodic"] = TRUE]
    /\ UNCHANGED <<pc, req, tloc, bundle, deadline, observed>>
    /\ UNCHANGED storeVars

\* ------------------------------------------------------------ fact extractor
Fact(pred, obj, conf, src) ==
    [subject |-> "user", predicate |-> pred, object |-> obj, confidence |-> conf, source |-> src]

\* what extract_facts can return: no fact, or the facts of one of its paths
ExtractFactsResults(transcript) ==
    {<<>>, <<Fact("likes", "hiking", 400000, "rule_fallback")>>}

\* facts_to_kb_updates
FactsToKbUpdates(facts) ==
    [i \in 1..Len(facts) |->
        [subject |-> facts[i].subject, predicate |-> facts[i].predicate,
         object |-> facts[i].object, confidence |-> facts[i].confidence,
         source |-> facts[i].source]]

\* the KB entry of one update; n ids were drawn before this batch
KbEntry(f, n) ==
    PyDict(<< <<"id", Uuid(n)>>,
              <<"title", PyStr(<<f.predicate>>)>>,
              <<"content", PyStr(<<f.object>>)>>,
              <<"metadata", PyDict(<< <<"confidence", PyInt(f.confidence)>>,
                                      <<"source", PyStr(<<f.source>>)>> >>)>> >>)

NewEntries(updates, n) == [i \in 1..Len(updates) |-> KbEntry(updates[i], n + i)]

\* ----------------------------------------------------------------- onboarding
Questions(n) == PyList([i \in 1..n |-> PyStr(<<"question", ToString(i)>>)])
Answers == {PyStr(<<"I love hiking">>)}
\* "answer" is any JSON value but null: a number is accepted as well
SubmittedAnswers == Answers \cup {PyInt(5)}

Session(u, questions) ==
    PyDict(<< <<"user_id", PyStr(<<u>>)>>,
              <<"questions", questions>>,
              <<"answers", PyList(<<>>)>>,
              <<"current_index", PyInt(0)>>,
              <<"completed", PyBool(FALSE)>> >>)

\* start_onboarding: the session is stored, or the store raises (500).
\* The latest session of a user is the one followed: its key stands for
\* f"onboarding:{session_id}"
StartOnboarding(u, n) ==
    /\ ob.pc = "idle"
    /\ \/ /\ redis' = SetWorkingMemory(redis, u, "onboarding", Session(u, Questions(n)), DEFAULT_TTL)
          /\ ob' = ObIdle("started")
       \/ /\ UNCHANGED redis
          /\ ob' = ObIdle("500")
    /\ UNCHANGED <<fixedVars, index, xf, uuid>>
    /\ UNCHANGED ctxVars

\* continue_onboarding is called
ObAnswer(u, a) ==
    /\ ob.pc = "idle"
    /\ uuid < MaxUuid
    /\ ob' = [ObIdle("none") EXCEPT !.pc = "get_session", !.user_id = u, !.answer = a]
    /\ UNCHANGED <<fixedVars, redis, index, xf, uuid>>
    /\ UNCHANGED ctxVars

\* the session with the answer appended and the index advanced
Advanced(session, a) ==
    DictSet(DictSet(session, "answers", PyList(Append(DictGet(session, "answers").items, a))),
            "current_index", PyInt(DictGet(session, "current_index").items[1] + 1))

\* if session["current_index"] >= len(session.get("questions", []))
SessionComplete(session) ==
    DictGet(session, "current_index").items[1] >= Len(DictGet(session, "questions").items)

\* the session is read: 404, already_completed, or the answer is recorded
ObGetSessionDone ==
    /\ ob.pc = "get_session"
    /\ \/ LET session == GetWorkingMemory(redis, ob.user_id, "onboarding")
          IN IF ~Truthy(session) THEN ob' = ObIdle("404")
             ELSE IF Truthy(DictGet(session, "completed")) THEN ob' = ObIdle("already_completed")
             ELSE LET adv == Advanced(session, ob.answer)
                  IN IF SessionComplete(adv)
                     THEN ob' = [ob EXCEPT !.pc = "save_completed",
                                           !.session = DictSet(adv, "completed", PyBool(TRUE))]
                     ELSE ob' = [ob EXCEPT !.pc = "save_progress", !.session = adv]
       \/ ob' = ObIdle("500")
    /\ UNCHANGED <<fixedVars, redis, index, xf, uuid>>
    /\ UNCHANGED ctxVars

\* not yet complete: the session is saved and the next question returned
ObSaveProgressDone ==
    /\ ob.pc = "save_progress"
    /\ \/ /\ redis' = SetWorkingMemory(redis, ob.user_id, "onboarding", ob.session, DEFAULT_TTL)
          /\ ob' = ObIdle("in_progress")
       \/ /\ UNCHANGED redis
          /\ ob' = ObIdle("500")
    /\ UNCHANGED <<fixedVars, index, xf, uuid>>
    /\ UNCHANGED ctxVars

\* completed: the session is saved before the facts are extracted
ObSaveCompletedDone ==
    /\ ob.pc = "save_completed"
    /\ \/ /\ redis' = SetWorkingMemory(redis, ob.user_id, "onboarding", ob.session, DEFAULT_TTL)
          /\ ob' = [ob EXCEPT !.pc = "extract"]
       \/ /\ UNCHANGED redis
          /\ ob' = ObIdle("500")
    /\ UNCHANGED <<fixedVars, index, xf, uuid>>
    /\ UNCHANGED ctxVars

\* " \n".join(answers) raises on an answer that is not a string (500);
\* otherwise extract_facts(transcript) returns
ObExtractDone ==
    /\ ob.pc = "extract"
    /\ LET answers == DictGet(ob.session, "answers").items
       IN IF \E i \in 1..Len(answers) : answers[i].kind # "str"
          THEN ob' = ObIdle("500")
          ELSE \E facts \in ExtractFactsResults(Join(<<" \n">>,
                    [i \in 1..Len(answers) |-> answers[i].items])) :
                  ob' = [ob EXCEPT !.pc = "kb_get", !.facts = facts]
    /\ UNCHANGED <<fixedVars, redis, index, xf, uuid>>
    /\ UNCHANGED ctxVars

\* kb_entries is read and the new entries are put in front of it
ObKbGetDone ==
    /\ ob.pc = "kb_get"
    /\ \/ LET existing == PyOr(GetWorkingMemory(redis, ob.user_id, "kb_entries"), PyList(<<>>))
              new_entries == NewEntries(FactsToKbUpdates(ob.facts), uuid)
          IN /\ ob' = [ob EXCEPT !.pc = "kb_set", !.entries = new_entries,
                                 !.combined = PyList(new_entries \o existing.items)]
             /\ uuid' = uuid + Len(new_entries)
       \/ /\ ob' = ObIdle("500")
          /\ UNCHANGED uuid
    /\ UNCHANGED <<fixedVars, redis, index, xf>>
    /\ UNCHANGED ctxVars

\* " \n".join(f"{e['title']}: {e['content'][:120]}" for e in new_entries[:5])
OnboardingSummary(entries) ==
    LET top == Take(entries, FMT_LIMIT)
    IN Join(<<" \n">>, [i \in 1..Len(top) |->
            DictGet(top[i], "title").items \o <<": ">> \o DictGet(top[i], "content").items])

\* kb_entries is written; without a summary the request is over
ObKbSetDone ==
    /\ ob.pc = "kb_set"
    /\ \/ /\ redis' = SetWorkingMemory(redis, ob.user_id, "kb_entries", ob.combined, DEFAULT_TTL)
          /\ IF Len(OnboardingSummary(ob.entries)) > 0
             THEN ob' = [ob EXCEPT !.pc = "summary_set"]
             ELSE ob' = ObIdle("completed")
       \/ /\ UNCHANGED redis
          /\ ob' = ObIdle("500")
    /\ UNCHANGED <<fixedVars, index, xf, uuid>>
    /\ UNCHANGED ctxVars

\* the TTL of the summary onboarding caches: set_working_memory is called
\* without ttl_seconds
OnboardingSummaryTtl == DEFAULT_TTL

\* set_working_memory(user_id, "kb_summary", summary)
ObSummarySetDone ==
    /\ ob.pc = "summary_set"
    /\ \/ /\ redis' = SetWorkingMemory(redis, ob.user_id, "kb_summary",
                                       PyStr(OnboardingSummary(ob.entries)), OnboardingSummaryTtl)
          /\ ob' = ObIdle("completed")
       \/ /\ UNCHANGED redis
          /\ ob' = ObIdle("500")
    /\ UNCHANGED <<fixedVars, index, xf, uuid>>
    /\ UNCHANGED ctxVars

\* ----------------------------------------------------------- run_extract_facts
\* the namespace _persist_kb_updates upserts into: upsert_memory is called
\* without one, so the parameter's default applies
UpsertNamespace(u) == "default"

\* PineconeClient.upsert_memory: the vector is stored with its metadata
UpsertMemory(idx, memory_id, u, namespace) == idx \cup {Vector(memory_id, namespace, u)}

\* run_extract_facts(transcript, user_id) is started
XfStart(u) ==
    /\ xf.pc = "idle"
    /\ uuid < MaxUuid
    /\ xf' = [XfIdle EXCEPT !.pc = "extract", !.user_id = u]
    /\ UNCHANGED <<fixedVars, redis, index, ob, uuid>>
    /\ UNCHANGED ctxVars

\* extract_facts returns: without facts, or without updates, the job is over
XfExtractDone ==
    /\ xf.pc = "extract"
    /\ \E facts \in ExtractFactsResults(<<>>) :
          IF Len(facts) = 0 THEN xf' = XfIdle
          ELSE xf' = [xf EXCEPT !.pc = "kb_get", !.facts = facts]
    /\ UNCHANGED <<fixedVars, redis, index, ob, uuid>>
    /\ UNCHANGED ctxVars

\* _persist_kb_updates reads kb_entries; a failure ends the job
XfKbGetDone ==
    /\ xf.pc = "kb_get"
    /\ \/ LET existing == PyOr(GetWorkingMemory(redis, xf.user_id, "kb_entries"), PyList(<<>>))
              new_entries == NewEntries(FactsToKbUpdates(xf.facts), uuid)
          IN /\ xf' = [xf EXCEPT !.pc = "kb_set", !.entries = new_entries \o existing.items,
                                 !.todo = new_entries]
             /\ uuid' = uuid + Len(new_entries)
       \/ /\ xf' = XfIdle
          /\ UNCHANGED uuid
    /\ UNCHANGED <<fixedVars, redis, index, ob>>
    /\ UNCHANGED ctxVars

\* the entries whose content or title is not empty
WithText(entries) ==
    LET hasText(e) == Truthy(PyOr(DictGet(e, "content"), DictGet(e, "title")))
    IN SelectSeq(entries, hasText)

\* kb_entries is written; the embeddings follow if both keys are set
XfKbSetDone ==
    /\ xf.pc = "kb_set"
    /\ \/ /\ redis' = SetWorkingMemory(redis, xf.user_id, "kb_entries", PyList(xf.entries), DEFAULT_TTL)
          /\ IF settings.pinecone_api_key /\ settings.openai_api_key
                /\ Len(WithText(xf.todo)) > 0
             THEN xf' = [xf EXCEPT !.pc = "embed", !.todo = WithText(xf.todo)]
             ELSE xf' = XfIdle
       \/ /\ UNCHANGED redis
          /\ xf' = XfIdle
    /\ UNCHANGED <<fixedVars, index, ob, uuid>>
    /\ UNCHANGED ctxVars

\* the embedding of the next entry returns: it is upserted, or the upsert
\* fails and is logged, or there is no embedding, or the request raised and
\* the job ends
XfEmbedDone ==
    /\ xf.pc = "embed"
    /\ LET entry == Head(xf.todo)
           after == IF Len(xf.todo) > 1 THEN [xf EXCEPT !.todo = Tail(xf.todo)] ELSE XfIdle
       IN \/ /\ index' = UpsertMemory(index, DictGet(entry, "id"), xf.user_id,
                                      UpsertNamespace(xf.user_id))
             /\ xf' = after
          \/ /\ UNCHANGED index
             /\ xf' = after
          \/ /\ UNCHANGED index
             /\ xf' = XfIdle
    /\ UNCHANGED <<fixedVars, redis, ob, uuid>>
    /\ UNCHANGED ctxVars

\* -------------------------------------------------------------- apply_updates
\* KBUpdate values submitted; conversation_id is <<>> for None
UpdateDomains == {"identity", "hobbies"}
UpdateValues == {"Ann", "Bob"}
UpdateConfidences == {500000, 600000}
\* 0.499999: below 0.5 by epsilon
NearConfidences == {499999}
UpdateConversations == {<<>>, <<"1">>, <<"2">>, <<"3">>, <<"9">>}
\* an update whose confidence is within epsilon of another one's, with the
\* latest conversation
NearUpdates ==
    [domain : {"identity"}, user_id : {"1"}, field_name : {"name"},
     field_value : {"Bob"}, confidence : NearConfidences,
     source : {"conversation"}, conversation_id : {<<"2">>}]
Updates ==
    [domain : UpdateDomains, user_id : {"1"}, field_name : {"name"},
     field_value : UpdateValues, confidence : UpdateConfidences,
     source : {"conversation"}, conversation_id : UpdateConversations]
    \cup NearUpdates

\* rows of the conversations table; created_at is <<>> when it is not set
Conversations ==
    {[id |-> "1", created_at |-> <<0>>],
     [id |-> "2", created_at |-> <<2>>],
     [id |-> "3", created_at |-> <<>>]}

\* MODEL_MAP.get(u.domain)
KnownDomain(d) == d \in DomainSet

\* make_update_log that records the new value as the old one
UpdateLog_valueAsOld(u, old_val, new_val, ts) ==
    [user_id |-> u.user_id, conversation_id |-> u.conversation_id,
     table_name |-> u.domain, field_name |-> u.field_name,
     old_value |-> <<new_val>>, new_value |-> <<new_val>>,
     confidence |-> u.confidence, source |-> u.source, created_at |-> ts]

\* make_update_log(old_val, new_val); old_val is <<>> for None
UpdateLog(u, old_val, new_val, ts) ==
    [user_id |-> u.user_id, conversation_id |-> u.conversation_id,
     table_name |-> u.domain, field_name |-> u.field_name,
     old_value |-> old_val, new_value |-> <<new_val>>,
     confidence |-> u.confidence, source |-> u.source, created_at |-> ts]

\* the rows select(model_cls).where(user_id == ..., field_name == ...) finds
Matching(tbls, u) ==
    {r \in tbls[u.domain] : r.user_id = u.user_id /\ r.field_name = u.field_name}

\* the loop of apply_updates takes its next update nu: an unknown domain
\* raises HTTPException(400), a known one starts the lookup
LoopHead(a, applied, nu) ==
    IF ~KnownDomain(nu.domain) THEN Ended(a, Response("400", 0, applied, a.left - 1))
    ELSE [pc |-> "lookup", left |-> a.left - 1, u |-> nu, applied |-> applied,
          existing |-> <<>>, stamp |-> 0, resp |-> NoResponse, last |-> "none",
          base |-> a.base]

\* for u in req.updates: the next update, or return {"applied": applied};
\* last records how the update before it ended
Continue(c, a, applied, outcome) ==
    IF a.left = 0
    THEN ap' = [ap EXCEPT ![c] =
                  [Ended(a, Response("200", applied, applied, 0)) EXCEPT !.last = outcome]]
    ELSE \E nu \in Updates :
            ap' = [ap EXCEPT ![c] = [LoopHead(a, applied, nu) EXCEPT !.last = outcome]]

\* POST /kb/apply with n updates
BeginApply(c, n) ==
    /\ ap[c].pc = "idle"
    /\ n <= budget
    /\ budget' = budget - n
    /\ Continue(c, [ap[c] EXCEPT !.left = n, !.base = Len(audit)], 0, "none")
    /\ UNCHANGED <<audit, clock, tables>>
    /\ UNCHANGED <<settings, user_rows, redis, index, procVars, sideVars>>
    /\ UNCHANGED ctxVars

\* incoming_conf > existing_conf + 1e-6
HigherConfidence(incoming, existing) == incoming > existing + EPSILON

\* a tie-break open to every update that is not higher, however much lower
TieWithConversation_anyLower(u, existing) ==
    /\ u.confidence - existing <= EPSILON
    /\ u.conversation_id # <<>>

\* abs(incoming_conf - existing_conf) <= 1e-6 and u.conversation_id is not None
TieWithConversation(u, existing) ==
    /\ u.confidence - existing <= EPSILON
    /\ existing - u.confidence <= EPSILON
    /\ u.conversation_id # <<>>

\* the lookup returns a matching row, or none, or raises (existing = None);
\* without a row the insert is staged, with one the conflict is resolved
LookupDone(c) ==
    /\ ap[c].pc = "lookup"
    /\ \E found \in {<<>>} \cup {<<r>> : r \in Matching(tables, ap[c].u)} :
          LET a == ap[c]
              u == a.u
          IN IF found = <<>>
             THEN /\ ap' = [ap EXCEPT ![c] = [a EXCEPT !.pc = "commit_insert", !.stamp = clock]]
                  /\ clock' = clock + 1
             ELSE IF HigherConfidence(u.confidence, found[1].confidence)
             THEN /\ ap' = [ap EXCEPT ![c] = [a EXCEPT !.pc = "commit_update",
                                                       !.existing = found, !.stamp = clock]]
                  /\ clock' = clock + 1
             ELSE IF TieWithConversation(u, found[1].confidence)
             THEN /\ ap' = [ap EXCEPT ![c] = [a EXCEPT !.pc = "conv", !.existing = found]]
                  /\ UNCHANGED clock
             ELSE /\ Continue(c, a, a.applied, "discarded")
                  /\ UNCHANGED clock
    /\ UNCHANGED <<audit, budget, tables>>
    /\ UNCHANGED <<settings, user_rows, redis, index, procVars, sideVars>>
    /\ UNCHANGED ctxVars

\* a tie-break that takes a conversation it cannot find for a recent one
MoreRecent_orMissing(convs, conversation_id, existing) ==
    \/ ~\E cv \in convs : cv.id = conversation_id[1]
    \/ \E cv \in convs :
          /\ cv.id = conversation_id[1]
          /\ cv.created_at # <<>>
          /\ cv.created_at[1] > existing.last_updated

\* conv and conv.created_at and (existing_updated is None or
\* conv.created_at > existing_updated)
MoreRecent(convs, conversation_id, existing) ==
    \E cv \in convs :
        /\ cv.id = conversation_id[1]
        /\ cv.created_at # <<>>
        /\ cv.created_at[1] > existing.last_updated

\* session.get(Conversation, ...) returns or raises: the update goes on to
\* its commit only with a more recent conversation
ConvDone(c) ==
    /\ ap[c].pc = "conv"
    /\ LET a == ap[c]
       IN \/ /\ MoreRecent(Conversations, a.u.conversation_id, a.existing[1])
             /\ ap' = [ap EXCEPT ![c] = [a EXCEPT !.pc = "commit_update", !.stamp = clock]]
             /\ clock' = clock + 1
          \/ /\ ~MoreRecent(Conversations, a.u.conversation_id, a.existing[1])
             /\ Continue(c, a, a.applied, "not_recent")
             /\ UNCHANGED clock
          \/ /\ Continue(c, a, a.applied, "conv_raised")
             /\ UNCHANGED clock
    /\ UNCHANGED <<audit, budget, tables>>
    /\ UNCHANGED <<settings, user_rows, redis, index, procVars, sideVars>>
    /\ UNCHANGED ctxVars

\* ForeignKey("users.id") and ForeignKey("conversations.id") of the
\* knowledge tables and of knowledge_updates
ForeignKeysHold(users, convs, u) ==
    /\ \E w \in users : w.id = u.user_id
    /\ IF u.conversation_id = <<>> THEN TRUE
       ELSE \E cv \in convs : cv.id = u.conversation_id[1]

\* a primary key no row of the tables has
FreshId(tbls) == 1 + Cardinality(UNION {tbls[d] : d \in DomainSet})

\* an insert whose row is committed before, and without, its audit entry
CommitInsertDone_unlogged(c) ==
    /\ ap[c].pc = "commit_insert"
    /\ LET a == ap[c]
           u == a.u
       IN \/ /\ ForeignKeysHold(user_rows, Conversations, u)
             /\ tables' = [tables EXCEPT ![u.domain] = @ \cup
                    {KRow(FreshId(tables), u.user_id, u.field_name, u.field_value,
                          u.confidence, u.source, a.stamp)}]
             /\ UNCHANGED audit
             /\ Continue(c, a, a.applied + 1, "inserted")
          \/ /\ ap' = [ap EXCEPT ![c] = Ended(a, Response("500", 0, a.applied, a.left))]
             /\ UNCHANGED <<tables, audit>>
    /\ UNCHANGED <<clock, budget>>
    /\ UNCHANGED <<settings, user_rows, redis, index, procVars, sideVars>>
    /\ UNCHANGED ctxVars

\* the row and the audit entry of the insert are committed together, or
\* the commit raises and apply_updates ends with the exception
CommitInsertDone(c) ==
    /\ ap[c].pc = "commit_insert"
    /\ LET a == ap[c]
           u == a.u
       IN \/ /\ ForeignKeysHold(user_rows, Conversations, u)
             /\ tables' = [tables EXCEPT ![u.domain] = @ \cup
                    {KRow(FreshId(tables), u.user_id, u.field_name, u.field_value,
                          u.confidence, u.source, a.stamp)}]
             /\ audit' = Append(audit, UpdateLog(u, <<>>, u.field_value, a.stamp))
             /\ Continue(c, a, a.applied + 1, "inserted")
          \/ /\ ap' = [ap EXCEPT ![c] = Ended(a, Response("500", 0, a.applied, a.left))]
             /\ UNCHANGED <<tables, audit>>
    /\ UNCHANGED <<clock, budget>>
    /\ UNCHANGED <<settings, user_rows, redis, index, procVars, sideVars>>
    /\ UNCHANGED ctxVars

\* the row read by the lookup, overwritten through its primary key
Overwrite(rows, existing, u, ts) ==
    {IF r.id = existing.id
     THEN KRow(r.id, r.user_id, r.field_name, u.field_value, u.confidence, u.source, ts)
     ELSE r : r \in rows}

\* an overwrite that is committed and logged but not counted
CommitUpdateDone_uncounted(c) ==
    /\ ap[c].pc = "commit_update"
    /\ LET a == ap[c]
           u == a.u
       IN \/ /\ ForeignKeysHold(user_rows, Conversations, u)
             /\ tables' = [tables EXCEPT ![u.domain] = Overwrite(@, a.existing[1], u, a.stamp)]
             /\ audit' = Append(audit, UpdateLog(u, <<a.existing[1].field_value>>,
                                                 u.field_value, a.stamp))
             /\ Continue(c, a, a.applied, "overwritten")
          \/ /\ ap' = [ap EXCEPT ![c] = Ended(a, Response("500", 0, a.applied, a.left))]
             /\ UNCHANGED <<tables, audit>>
    /\ UNCHANGED <<clock, budget>>
    /\ UNCHANGED <<settings, user_rows, redis, index, procVars, sideVars>>
    /\ UNCHANGED ctxVars

\* the overwrite and its audit entry are committed together, or the commit
\* raises and apply_updates ends with the exception
CommitUpdateDone(c) ==
    /\ ap[c].pc = "commit_update"
    /\ LET a == ap[c]
           u == a.u
       IN \/ /\ ForeignKeysHold(user_rows, Conversations, u)
             /\ tables' = [tables EXCEPT ![u.domain] = Overwrite(@, a.existing[1], u, a.stamp)]
             /\ audit' = Append(audit, UpdateLog(u, <<a.existing[1].field_value>>,
                                                 u.field_value, a.stamp))
             /\ Continue(c, a, a.applied + 1, "overwritten")
          \/ /\ ap' = [ap EXCEPT ![c] = Ended(a, Response("500", 0, a.applied, a.left))]
             /\ UNCHANGED <<tables, audit>>
    /\ UNCHANGED <<clock, budget>>
    /\ UNCHANGED <<settings, user_rows, redis, index, procVars, sideVars>>
    /\ UNCHANGED ctxVars

\* --------------------------------------------------------------- extract_facts
\* A transcript is the sequence of its words; "." is a token of its own and
\* ends a sentence. Words are compared as they are written (the inputs use
\* one spelling each), and a newline is not among the tokens.
MaxSentences == 2

Sentences ==
    {<<"I", "love", "hiking", ".">>,
     <<"hello", ".">>,
     <<"I", "am", "in", "Paris", ".">>,
     <<"I", "don't", "like", "rain">>,
     <<"My", "favorite", "color", "is", "blue", ".">>}

RECURSIVE Flatten(_)
Flatten(ss) == IF Len(ss) = 0 THEN <<>> ELSE Head(ss) \o Flatten(Tail(ss))

\* the transcripts extract_facts is called with; None stands for a value
\* that is not a string
Transcripts ==
    {PyNone}
    \cup {PyStr(Flatten(ss)) : ss \in UNION {[1..n -> Sentences] : n \in 0..MaxSentences}}

\* re.split(r"(?<=[.!?])\s+", text): a sentence ends after each "."
RECURSIVE SplitSentences(_, _)
SplitSentences(tokens, current) ==
    IF Len(tokens) = 0 THEN (IF Len(current) = 0 THEN <<>> ELSE <<current>>)
    ELSE IF Head(tokens) = "."
    THEN <<Append(current, ".")>> \o SplitSentences(Tail(tokens), <<>>)
    ELSE SplitSentences(Tail(tokens), Append(current, Head(tokens)))

\* every a \o b, in the order a regular expression tries its alternatives
Cross(as, bs) ==
    [k \in 1..(Len(as) * Len(bs)) |->
        as[((k - 1) \div Len(bs)) + 1] \o bs[((k - 1) % Len(bs)) + 1]]

IAm == << <<"I'm">>, <<"I", "am">> >>
Liking == << <<"like">>, <<"love">>, <<"enjoy">> >>

\* fact_patterns: the openings of each pattern in the order they are tried
\* (an optional group is tried before its omission), the word that must
\* follow the object (none but for "preference"), and the predicate
FactPatterns ==
    << [leads |-> Cross(IAm, << <<"from">>, <<"in">>, <<"based", "in">>, <<>> >>),
        mid |-> <<>>, predicate |-> "lives_in"],
       [leads |-> Cross(IAm, << <<"a">>, <<"an">>, <<>> >>),
        mid |-> <<>>, predicate |-> "identity"],
       [leads |-> Cross(<< <<"I">> >>, Liking),
        mid |-> <<>>, predicate |-> "likes"],
       [leads |-> Cross(Cross(<< <<"I">> >>, << <<"don't">>, <<"do", "not">>, <<>> >>), Liking),
        mid |-> <<>>, predicate |-> "dislikes"],
       [leads |-> << <<"My", "favorite">>, <<"My", "favourite">> >>,
        mid |-> <<"is">>, predicate |-> "preference"],
       [leads |-> << <<"I", "met">> >>,
        mid |-> <<>>, predicate |-> "met_person"],
       [leads |-> << <<"I", "bought">>, <<"I", "purchased">> >>,
        mid |-> <<>>, predicate |-> "purchased"] >>

\* the tokens of s from j on that (?P<object>.+?) takes before stop: at
\* least one, then as few as possible; <<>> when the pattern cannot match
ObjectFrom(s, j, stop) ==
    IF j > Len(s) THEN <<>>
    ELSE LET ends == {k \in j..Len(s) :
                         IF stop = <<>>
                         THEN k = Len(s) \/ s[k + 1] = "."
                         ELSE k + 1 < Len(s) /\ s[k + 1] = stop[1]}
         IN IF ends = {} THEN <<>>
            ELSE SubSeq(s, j, CHOOSE k \in ends : \A m \in ends : k <= m)

\* pattern.search(s): the object of the leftmost match, of the first
\* opening that matches there; <<>> without a match
SearchPattern(s, p) ==
    LET hit(i, a) ==
            /\ i + Len(p.leads[a]) - 1 <= Len(s)
            /\ SubSeq(s, i, i + Len(p.leads[a]) - 1) = p.leads[a]
            /\ ObjectFrom(s, i + Len(p.leads[a]), p.mid) # <<>>
        hits == {<<i, a>> \in (1..Len(s)) \X (1..Len(p.leads)) : hit(i, a)}
    IN IF hits = {} THEN <<>>
       ELSE LET first == CHOOSE h \in hits :
                            \A g \in hits : h[1] < g[1] \/ (h[1] = g[1] /\ h[2] <= g[2])
            IN ObjectFrom(s, first[1] + Len(p.leads[first[2]]), p.mid)

\* obj.strip().strip('.').strip()
RECURSIVE StripDots(_)
StripDots(obj) ==
    IF Len(obj) = 0 THEN obj
    ELSE IF Head(obj) = "." THEN StripDots(Tail(obj))
    ELSE IF obj[Len(obj)] = "." THEN StripDots(SubSeq(obj, 1, Len(obj) - 1))
    ELSE obj

\* the fact of sentence s: that of the first pattern, from number i on,
\* that matches with an object left after stripping; <<>> without one
RECURSIVE SentenceFact(_, _)
SentenceFact(s, i) ==
    IF i > Len(FactPatterns) THEN <<>>
    ELSE LET obj == StripDots(SearchPattern(s, FactPatterns[i]))
         IN IF obj # <<>>
            THEN <<Fact(FactPatterns[i].predicate, obj, 400000, "rule_fallback")>>
            ELSE SentenceFact(s, i + 1)

\* _rule_based_extract: transcript.strip() raises on a value that is not a
\* string; otherwise at most one fact per sentence
RuleBasedExtract(transcript) ==
    IF transcript.kind # "str" THEN PyExc
    ELSE LET sentences == SplitSentences(transcript.items, <<>>)
         IN PyList(Flatten([i \in 1..Len(sentences) |-> SentenceFact(sentences[i], 1)]))

\* items the model may put in its array
GoodItem ==
    PyDict(<< <<"subject", PyStr(<<"user">>)>>, <<"predicate", PyStr(<<"likes">>)>>,
              <<"object", PyStr(<<"tea">>)>>, <<"confidence", PyInt(900000)>> >>)
BareItem == PyDict(<< <<"value", PyStr(<<"tea">>)>>, <<"confidence", PyNone>> >>)
BadConfidenceItem ==
    PyDict(<< <<"predicate", PyStr(<<"likes">>)>>, <<"object", PyStr(<<"tea">>)>>,
              <<"confidence", PyStr(<<"high">>)>> >>)
ItemLists ==
    {PyList(<<>>), PyList(<<GoodItem>>), PyList(<<BareItem>>),
     PyList(<<PyStr(<<"tea">>)>>), PyList(<<GoodItem, BadConfidenceItem>>)}

\* what the request of _openai_extract ends with: an error (the request,
\* its status, or a body without choices), or the content of the first
\* choice: null, JSON text with its value, or other text with what the
\* search for an array in it yields (none, one that parses, one that does not)
Replies ==
    {[kind |-> "error"], [kind |-> "null"]}
    \cup {[kind |-> "json", value |-> v] :
            v \in ItemLists \cup {PyInt(1), PyDict(<< <<"note", PyStr(<<"none">>)>> >>)}
                  \cup {PyDict(<< <<"facts", l>> >>) : l \in {PyList(<<GoodItem>>)}}}
    \cup {[kind |-> "text", embedded |-> e] : e \in {PyNone, PyExc, PyList(<<GoodItem>>)}}

\* d.get(key, default)
Get(d, key, default) ==
    IF \E j \in 1..Len(d.items) : d.items[j][1] = key THEN DictGet(d, key) ELSE default

\* the first of the keys "facts", "items", "data" that parsed holds a list under
ListField(parsed) ==
    LET keys == <<"facts", "items", "data">>
        found == {i \in 1..Len(keys) : Get(parsed, keys[i], PyNone).kind = "list"}
    IN IF found = {} THEN PyNone
       ELSE DictGet(parsed, keys[CHOOSE i \in found : \A j \in found : i <= j])

\* _openai_extract: None without a key and on every failure, else the list
\* found in the content
OpenAiExtract(cfg, reply) ==
    IF ~cfg.openai_api_key THEN PyNone
    ELSE CASE reply.kind = "error" -> PyNone
           [] reply.kind = "null" -> PyNone
           [] reply.kind = "json" ->
                IF reply.value.kind = "list" THEN reply.value
                ELSE IF reply.value.kind = "dict" THEN ListField(reply.value)
                ELSE PyNone
           [] reply.kind = "text" ->
                IF reply.embedded.kind = "list" THEN reply.embedded ELSE PyNone

\* float(x) succeeds on a number and raises on a word
FloatRaises(v) == v.kind \notin {"int", "bool"}

\* the dict lines 148-152 build from one item
Sanitized(item) ==
    [subject |-> Get(item, "subject", PyStr(<<"user">>)),
     predicate |-> PyOr(PyOr(Get(item, "predicate", PyNone), Get(item, "relation", PyNone)),
                        PyStr(<<"statement">>)),
     object |-> PyOr(PyOr(Get(item, "object", PyNone), Get(item, "value", PyNone)), PyStr(<<>>)),
     confidence |-> IF Get(item, "confidence", PyNone) # PyNone
                    THEN Get(item, "confidence", PyInt(600000)) ELSE PyInt(600000),
     source |-> "openai"]

\* the loop of lines 144-152: items that are not dicts are skipped, a
\* confidence that float() rejects raises
Sanitize(ai_result) ==
    LET isDict(x) == x.kind = "dict"
        dicts == SelectSeq(ai_result.items, isDict)
    IN IF \E i \in 1..Len(dicts) :
             /\ Get(dicts[i], "confidence", PyNone) # PyNone
             /\ FloatRaises(Get(dicts[i], "confidence", PyNone))
       THEN PyExc
       ELSE PyList([i \in 1..Len(dicts) |-> Sanitized(dicts[i])])

\* extract_facts whose fallback is not guarded
ExtractFacts_unguarded(cfg, transcript, reply) ==
    LET ai == OpenAiExtract(cfg, reply)
        san == IF ai = PyNone THEN PyList(<<>>) ELSE Sanitize(ai)
    IN IF san.kind = "list" /\ Len(san.items) > 0
       THEN [path |-> "openai", result |-> san]
       ELSE [path |-> "rules", result |-> RuleBasedExtract(transcript)]

\* extract_facts: the sanitized facts of the model when there are any;
\* otherwise, and when sanitizing raised, the rule-based facts; [] when
\* those raise
ExtractFacts(cfg, transcript, reply) ==
    LET ai == OpenAiExtract(cfg, reply)
        san == IF ai = PyNone THEN PyList(<<>>) ELSE Sanitize(ai)
        rules == RuleBasedExtract(transcript)
    IN IF san.kind = "list" /\ Len(san.items) > 0
       THEN [path |-> "openai", result |-> san]
       ELSE IF rules.kind = "exc"
       THEN [path |-> "rules_failed", result |-> PyList(<<>>)]
       ELSE [path |-> "rules", result |-> rules]

\* the call ends: it has returned its result, or raised
EfEnd(t, reply) ==
    LET r == ExtractFacts(settings, t, reply)
    IN ef' = [pc |-> IF r.result.kind = "exc" THEN "raised" ELSE "returned",
              transcript |-> t, reply |-> reply, path |-> r.path, result |-> r.result]

\* extract_facts(transcript) is called: without a key nothing is awaited
EfCall(t) ==
    /\ ef.pc \in {"idle", "returned"}
    /\ IF settings.openai_api_key
       THEN ef' = [EfIdle EXCEPT !.pc = "post", !.transcript = t]
       ELSE EfEnd(t, PyNone)
    /\ UNCHANGED <<settings, user_rows, tables, applyVars, redis, index, procVars, ws, nt, kb>>
    /\ UNCHANGED ctxVars

\* the request to the model ends
EfPostDone ==
    /\ ef.pc = "post"
    /\ \E reply \in Replies : EfEnd(ef.transcript, reply)
    /\ UNCHANGED <<settings, user_rows, tables, applyVars, redis, index, procVars, ws, nt, kb>>
    /\ UNCHANGED ctxVars

\* ------------------------------------------------------ proactive notifications
\* One user on one calendar day. nt.counter is the value of
\* push_count:{user}:{day} (0 while the key is absent: "get(...) or 0", then
\* int()), nt.queued the number of messages pushed on pending_push:{user}
\* that day, nt.tokens whether push_tokens:{user} has a member. Each of
\* NtProcs is a check-in request or a run of a scheduled task for the user.
max_proactive_notifications_per_day == 3
MaxQueued == 5

exceptNt == <<settings, user_rows, tables, applyVars, redis, index, procVars, ef, ws, kb>>

NtSet(p, proc) == [nt EXCEPT !.procs[p] = proc]

\* the request or task ends
NtDone(p, status) == NtSet(p, [nt.procs[p] EXCEPT !.pc = "done", !.status = status])

\* a Redis call of p raises: the request ends with 500, the task run with
\* the exception; what p wrote before stays
NtRaise(p) ==
    /\ nt.procs[p].pc \in {"smembers", "get", "rpush", "expire_pending", "incr", "expire_counter"}
    /\ nt' = NtDone(p, "error")
    /\ UNCHANGED exceptNt
    /\ UNCHANGED ctxVars

\* POST /notifications/checkin arrives, or periodic_checkin or
\* send_morning_briefing reaches the user (one of the users that
\* _gather_all_user_ids found a push_tokens key of)
NtStart(p, kind) ==
    /\ nt.procs[p].pc \in {"idle", "done"}
    /\ kind = "task" => nt.tokens
    /\ nt' = NtSet(p, [NtProcIdle EXCEPT !.kind = kind,
                                         !.pc = IF kind = "checkin" THEN "smembers" ELSE "get"])
    /\ UNCHANGED exceptNt
    /\ UNCHANGED ctxVars

\* jarvis_checkin: tokens = smembers(push_tokens); 404 without tokens
NtSmembers(p) ==
    /\ nt.procs[p].pc = "smembers"
    /\ nt' = IF nt.tokens THEN NtSet(p, [nt.procs[p] EXCEPT !.pc = "get"])
             ELSE NtDone(p, "404")
    /\ UNCHANGED exceptNt
    /\ UNCHANGED ctxVars

\* count = int(get(counter_key) or 0), and the check of the limit that
\* follows without an await: 429 (the task: return) at the limit
NtGet(p) ==
    /\ nt.procs[p].pc = "get"
    /\ nt' = IF nt.counter >= max_proactive_notifications_per_day
             THEN NtDone(p, IF nt.procs[p].kind = "checkin" THEN "429" ELSE "skipped")
             ELSE NtSet(p, [nt.procs[p] EXCEPT !.pc = "rpush", !.count = nt.counter])
    /\ UNCHANGED exceptNt
    /\ UNCHANGED ctxVars

\* rpush(pending_key, message)
NtRpush(p) ==
    /\ nt.procs[p].pc = "rpush"
    /\ nt.queued < MaxQueued
    /\ nt' = [NtSet(p, [nt.procs[p] EXCEPT !.pc = "expire_pending"])
                 EXCEPT !.queued = nt.queued + 1]
    /\ UNCHANGED exceptNt
    /\ UNCHANGED ctxVars

\* expire(pending_key, 24 h)
NtExpirePending(p) ==
    /\ nt.procs[p].pc = "expire_pending"
    /\ nt' = NtSet(p, [nt.procs[p] EXCEPT !.pc = "incr"])
    /\ UNCHANGED exceptNt
    /\ UNCHANGED ctxVars

\* incr(counter_key)
NtIncr(p) ==
    /\ nt.procs[p].pc = "incr"
    /\ nt' = [NtSet(p, [nt.procs[p] EXCEPT !.pc = "expire_counter"])
                 EXCEPT !.counter = nt.counter + 1]
    /\ UNCHANGED exceptNt
    /\ UNCHANGED ctxVars

\* expire(counter_key, 24 h), and the return: today_count is count + 1
NtExpireCounter(p) ==
    /\ nt.procs[p].pc = "expire_counter"
    /\ nt' = NtDone(p, "queued")
    /\ UNCHANGED exceptNt
    /\ UNCHANGED ctxVars

\* ------------------------------------------------------- kb_entries endpoints
\* The requests of user "1" on the kb_entries list: POST /kb, PUT /kb/{id},
\* DELETE /kb/{id} and POST /memory/upsert with one item without an id.
\* kb.reported holds the ids of the entries a request returned as stored and
\* no request returned as deleted since, kb.calls the number of requests so far.
KbUser == "1"
KbOps == {"create", "upsert", "update", "delete"}
MaxKbCalls == 2

exceptKb == <<settings, user_rows, tables, applyVars, index, ob, xf, ef, ws, nt>>

\* the entry create_knowledge builds, and the one memory_upsert builds
CreatedEntry(id) ==
    PyDict(<< <<"id", id>>, <<"title", PyStr(<<"note">>)>>,
              <<"content", PyStr(<<"text">>)>>, <<"metadata", PyDict(<<>>)>> >>)
UpsertedEntry(id) ==
    PyDict(<< <<"id", id>>, <<"title", PyStr(<<"text">>)>>,
              <<"content", PyStr(<<"text">>)>>, <<"source", PyStr(<<"client">>)>> >>)

\* the ids of the entries of a list
EntryIds(entries) == {DictGet(entries[i], "id") : i \in 1..Len(entries)}

\* update_knowledge: the first item with the id takes the payload's title
UpdatedEntries(entries, id) ==
    LET hits == {i \in 1..Len(entries) : DictGet(entries[i], "id") = id}
        first == CHOOSE i \in hits : \A j \in hits : i <= j
    IN [i \in 1..Len(entries) |->
           IF i = first THEN DictSet(entries[i], "title", PyStr(<<"edited">>)) ELSE entries[i]]

\* delete_knowledge: [item for item in existing if item.get("id") != kb_id]
WithoutEntry(entries, id) ==
    LET keep(e) == DictGet(e, "id") # id
    IN SelectSeq(entries, keep)

KbSetProc(p, proc) == [kb EXCEPT !.procs[p] = proc]
KbDone(p, status) == KbSetProc(p, [KbProcIdle EXCEPT !.pc = "done", !.status = status])

\* a request arrives; create and upsert draw the uuid of their entry (which
\* does not depend on what they read), update and delete name an id
KbCall(p, op, id) ==
    /\ kb.procs[p].pc \in {"idle", "done"}
    /\ kb.calls < MaxKbCalls
    /\ IF op \in {"create", "upsert"}
       THEN /\ uuid < MaxUuid
            /\ uuid' = uuid + 1
            /\ kb' = [KbSetProc(p, [KbProcIdle EXCEPT !.pc = "get", !.op = op,
                                                      !.id = Uuid(uuid + 1)])
                         EXCEPT !.calls = kb.calls + 1]
       ELSE /\ UNCHANGED uuid
            /\ kb' = [KbSetProc(p, [KbProcIdle EXCEPT !.pc = "get", !.op = op, !.id = id])
                         EXCEPT !.calls = kb.calls + 1]
    /\ UNCHANGED <<exceptKb, redis>>
    /\ UNCHANGED ctxVars

\* the failure of a Redis call: 500, and success=False from memory_upsert
KbFailure(p) == IF kb.procs[p].op = "upsert" THEN "failed" ELSE "500"

\* existing = get_working_memory(user_id, "kb_entries") or [], and the list
\* the request will write; 404 when update or delete do not find the id
KbGetDone(p) ==
    /\ kb.procs[p].pc = "get"
    /\ \/ LET existing == PyOr(GetWorkingMemory(redis, KbUser, "kb_entries"), PyList(<<>>)).items
              me == kb.procs[p]
              found == me.id \in EntryIds(existing)
              combined ==
                  CASE me.op = "create" -> <<CreatedEntry(me.id)>> \o existing
                    [] me.op = "upsert" -> <<UpsertedEntry(me.id)>> \o existing
                    [] me.op = "update" -> IF found THEN UpdatedEntries(existing, me.id) ELSE existing
                    [] me.op = "delete" -> WithoutEntry(existing, me.id)
          IN IF me.op \in {"update", "delete"} /\ ~found
             THEN kb' = KbDone(p, "404")
             ELSE kb' = KbSetProc(p, [me EXCEPT !.pc = "set", !.combined = PyList(combined)])
       \/ kb' = KbDone(p, KbFailure(p))
    /\ UNCHANGED <<exceptKb, redis, uuid>>
    /\ UNCHANGED ctxVars

\* set_working_memory(user_id, "kb_entries", ...) and the response
KbSetDone(p) ==
    /\ kb.procs[p].pc = "set"
    /\ \/ LET me == kb.procs[p]
          IN /\ redis' = SetWorkingMemory(redis, KbUser, "kb_entries", me.combined, DEFAULT_TTL)
             /\ kb' = [KbDone(p, CASE me.op = "create" -> "created"
                                   [] me.op = "upsert" -> "success"
                                   [] me.op = "update" -> "ok"
                                   [] me.op = "delete" -> "deleted")
                          EXCEPT !.reported =
                              CASE me.op \in {"create", "upsert"} -> kb.reported \cup {me.id}
                                [] me.op = "delete" -> kb.reported \ {me.id}
                                [] OTHER -> kb.reported]
       \/ /\ UNCHANGED redis
          /\ kb' = KbDone(p, KbFailure(p))
    /\ UNCHANGED <<exceptKb, uuid>>
    /\ UNCHANGED ctxVars

\* ------------------------------------------------------------ websocket_voice
\* One connection of /ws/voice/{user_id}. ws.pc is the await the handler is
\* at, ws.client whether the client is still there, ws.buffer the number of
\* chunks in audio_buffer. Of the utterance in progress, ws.chunks counts the
\* audio chunks received, ws.acks the ack_audio frames delivered, and
\* ws.events lists the frames delivered since its end-of-utterance marker.
MaxChunks == 2
LLM_TEST_CHUNKS == 3
WAV_BYTES == 3244
TTS_CHUNK_SIZE == 32768

exceptWs == <<settings, user_rows, tables, applyVars, redis, index, procVars, ef, nt, kb>>

\* the frames a client sends: audio as a binary frame or as a JSON
\* audio_chunk (with data, without, or with data that is not base64), the
\* three end-of-utterance markers, and any other text
ChunkFrames == {"bytes_chunk", "json_chunk"}
MarkerFrames == {"bytes_final", "json_final", "text_final"}
Frames == ChunkFrames \cup MarkerFrames \cup {"json_chunk_empty", "json_chunk_bad", "other_text"}

\* range(0, len(tts_audio), chunk_size)
TtsChunks(n) == (n + TTS_CHUNK_SIZE - 1) \div TTS_CHUNK_SIZE

\* the frame reaches the client
Delivered(w, type) ==
    IF type = "ack_audio" THEN [w EXCEPT !.acks = @ + 1]
    ELSE IF w.stage = "utterance" THEN [w EXCEPT !.events = Append(@, type)]
    ELSE w

\* audio_buffer = bytearray(); continue
NextUtterance(w) ==
    [w EXCEPT !.pc = "receive", !.i = 0, !.buffer = 0, !.chunks = 0, !.acks = 0,
              !.stage = "idle", !.transcript = FALSE, !.audio = 0]

\* the handler is over: the loop was left by break, or through one of the
\* two except clauses
Closed(w, how) == [w EXCEPT !.pc = "closed", !.ended = how]

\* websocket.send_json at an await outside any inner try: the frame is
\* delivered and the handler goes on; once the client is gone the send
\* raises (both except clauses end the handler) or the frame is dropped
\* without an error and the handler goes on
SendOutcomes(w, delivered, dropped) ==
    IF w.client = "connected" THEN {delivered}
    ELSE {Closed(w, "disconnect"), Closed(w, "error"), dropped}

\* the client connects: accept(), then "ready" is to be sent
WsConnect ==
    /\ ws.pc = "idle"
    /\ ws' = [WsIdle EXCEPT !.pc = "send_ready", !.client = "connected"]
    /\ UNCHANGED exceptWs
    /\ UNCHANGED ctxVars

\* the client goes away, whatever the handler is doing
WsDisconnect ==
    /\ ws.pc \notin {"idle", "closed"}
    /\ ws.client = "connected"
    /\ ws' = [ws EXCEPT !.client = "gone"]
    /\ UNCHANGED exceptWs
    /\ UNCHANGED ctxVars

\* receive() returns the disconnect message: break
WsReceiveDisconnect ==
    /\ ws.pc = "receive"
    /\ ws.client = "gone"
    /\ ws' = Closed(ws, "break")
    /\ UNCHANGED exceptWs
    /\ UNCHANGED ctxVars

\* receive() returns a frame of the client
WsFrame(f) ==
    /\ ws.pc = "receive"
    /\ ws.client = "connected"
    /\ f \in ChunkFrames => ws.chunks < MaxChunks
    /\ ws' = CASE f \in ChunkFrames ->
                    [ws EXCEPT !.pc = "send_ack", !.buffer = @ + 1, !.chunks = @ + 1]
               [] f = "json_chunk_empty" -> ws
               [] f = "json_chunk_bad" -> [ws EXCEPT !.pc = "send_error"]
               [] f \in MarkerFrames ->
                    [ws EXCEPT !.pc = "send_stt_start", !.stage = "utterance", !.events = <<>>]
               [] f = "other_text" -> [ws EXCEPT !.pc = "send_ignored"]
    /\ UNCHANGED exceptWs
    /\ UNCHANGED ctxVars

\* the sends of the loop that no inner try guards, each with the frame it
\* sends and the await that follows it
PlainSends ==
    [send_ready |-> <<"ready", "receive">>,
     send_ack |-> <<"ack_audio", "receive">>,
     send_ignored |-> <<"ignored", "receive">>,
     send_stt_start |-> <<"stt_start", "deepgram">>,
     send_stt_done |-> <<"stt_done", "context">>,
     send_context_built |-> <<"context_built", "llm">>,
     send_final_text |-> <<"final_text", "receive">>]

WsSend ==
    /\ ws.pc \in DOMAIN PlainSends
    /\ LET next(w) == IF ws.pc = "send_final_text" THEN NextUtterance(w)
                      ELSE [w EXCEPT !.pc = PlainSends[ws.pc][2]]
       IN ws' \in SendOutcomes(ws, next(Delivered(ws, PlainSends[ws.pc][1])), next(ws))
    /\ UNCHANGED exceptWs
    /\ UNCHANGED ctxVars

\* transcribe_audio_deepgram: the stub's transcript in test mode, None
\* without a key, else the transcript of the reply or None
DeepgramTranscripts(cfg) ==
    IF cfg.test_mode THEN {TRUE}
    ELSE IF ~cfg.deepgram_api_key THEN {FALSE}
    ELSE {TRUE, FALSE}

WsDeepgramDone ==
    /\ ws.pc = "deepgram"
    /\ \E t \in DeepgramTranscripts(settings) :
          ws' = [ws EXCEPT !.transcript = t, !.pc = IF t THEN "send_stt_done" ELSE "whisper"]
    /\ UNCHANGED exceptWs
    /\ UNCHANGED ctxVars

\* transcribe_audio_openai_whisper: None without openai_api_key; with it,
\* settings.groq_api_key is read, which Settings does not define
WsWhisperDone ==
    /\ ws.pc = "whisper"
    /\ ws' = IF settings.test_mode THEN [ws EXCEPT !.transcript = TRUE, !.pc = "send_stt_done"]
             ELSE IF ~settings.openai_api_key THEN [ws EXCEPT !.pc = "send_stt_done"]
             ELSE IF "groq_api_key" \notin DOMAIN settings THEN [ws EXCEPT !.pc = "send_error"]
             ELSE [ws EXCEPT !.pc = "send_stt_done"]
    /\ UNCHANGED exceptWs
    /\ UNCHANGED ctxVars

\* build_context(user_id, transcript) returns
WsContextDone ==
    /\ ws.pc = "context"
    /\ ws' = [ws EXCEPT !.pc = "send_context_built"]
    /\ UNCHANGED exceptWs
    /\ UNCHANGED ctxVars

\* build_context never returns: its gather has no timeout and one of the
\* fetches never completes
WsContextHangs ==
    /\ ws.pc = "context"
    /\ ws' = [ws EXCEPT !.pc = "context_hung"]
    /\ UNCHANGED exceptWs
    /\ UNCHANGED ctxVars

\* stream_openai_chat: the stub's chunks in test mode; otherwise
\* settings.groq_api_key is read, which Settings does not define
WsLlmStart ==
    /\ ws.pc = "llm"
    /\ ws' = IF settings.test_mode THEN [ws EXCEPT !.pc = "send_llm_chunk", !.i = 1]
             ELSE IF "groq_api_key" \notin DOMAIN settings THEN [ws EXCEPT !.pc = "send_error"]
             ELSE [ws EXCEPT !.pc = "send_llm_done"]
    /\ UNCHANGED exceptWs
    /\ UNCHANGED ctxVars

\* the chunks of the stub and llm_done
WsLlmSend ==
    /\ ws.pc \in {"send_llm_chunk", "send_llm_done"}
    /\ LET next(w) == IF ws.pc = "send_llm_done" THEN [w EXCEPT !.pc = "tts", !.i = 0]
                      ELSE IF ws.i < LLM_TEST_CHUNKS THEN [w EXCEPT !.i = @ + 1]
                      ELSE [w EXCEPT !.pc = "send_llm_done"]
           type == IF ws.pc = "send_llm_done" THEN "llm_done" ELSE "llm_chunk"
       IN ws' \in SendOutcomes(ws, next(Delivered(ws, type)), next(ws))
    /\ UNCHANGED exceptWs
    /\ UNCHANGED ctxVars

\* synthesize_elevenlabs: the length of the audio, 0 for None
SynthesizeElevenlabs(cfg) ==
    IF cfg.test_mode THEN {WAV_BYTES}
    ELSE IF ~cfg.elevenlabs_api_key THEN {0}
    ELSE {0, WAV_BYTES}

WsTtsDone ==
    /\ ws.pc = "tts"
    /\ \E n \in SynthesizeElevenlabs(settings) :
          ws' = [ws EXCEPT !.audio = n, !.i = IF n > 0 THEN 1 ELSE 0,
                           !.pc = IF n > 0 THEN "send_tts_chunk" ELSE "send_final_text"]
    /\ UNCHANGED exceptWs
    /\ UNCHANGED ctxVars

\* the sends inside the try: a send that raises leads to the fallback frame,
\* and a fallback that raises is logged
WsTtsSend ==
    /\ ws.pc \in {"send_tts_chunk", "send_tts_done", "send_tts_fallback"}
    /\ LET type == CASE ws.pc = "send_tts_chunk" -> "tts_audio_chunk"
                     [] ws.pc = "send_tts_done" -> "tts_audio_done"
                     [] ws.pc = "send_tts_fallback" -> "tts_audio_base64"
           next(w) == IF ws.pc = "send_tts_chunk"
                      THEN IF ws.i < TtsChunks(ws.audio) THEN [w EXCEPT !.i = @ + 1]
                           ELSE [w EXCEPT !.pc = "send_tts_done"]
                      ELSE NextUtterance(w)
           raised == IF ws.pc = "send_tts_fallback" THEN NextUtterance(ws)
                     ELSE [ws EXCEPT !.pc = "send_tts_fallback"]
       IN ws' \in IF ws.client = "connected" THEN {next(Delivered(ws, type))}
                  ELSE {raised, next(ws)}
    /\ UNCHANGED exceptWs
    /\ UNCHANGED ctxVars

\* except Exception: the error frame is tried and the handler ends
WsSendError ==
    /\ ws.pc = "send_error"
    /\ ws' = Closed(IF ws.client = "connected" THEN Delivered(ws, "error") ELSE ws, "error")
    /\ UNCHANGED exceptWs
    /\ UNCHANGED ctxVars

\* the steps of the handler that the event loop runs when they can run
WsHandler ==
    \/ WsReceiveDisconnect \/ WsSend \/ WsDeepgramDone \/ WsWhisperDone \/ WsContextDone
    \/ WsLlmStart \/ WsLlmSend \/ WsTtsDone \/ WsTtsSend \/ WsSendError

\* ------------------------------------------------------------- specification
TaskStep ==
    \/ ChStart \/ ChGetDone
    \/ KbStart \/ KbCacheGetDone \/ KbDbDone \/ KbCacheSetDone
    \/ WmStart \/ WmMessagesDone \/ WmStateDone
    \/ EpStart \/ EpEmbedDone

Next ==
    \/ \E u \in Users, q \in Queries : Call(u, q)
    \/ \E l \in Layers : CreateTask(l)
    \/ AwaitGather
    \/ TaskStep
    \/ \E l \in Layers : TaskHang(l)
    \/ DeadlineElapses
    \/ Return

Spec == Init /\ [][Next]_vars

\* context building next to the onboarding interview of the same user,
\* without the API keys of the episodic layer
CacheUsers == {"1"}

CacheInit ==
    /\ settings = [pinecone_api_key |-> FALSE, openai_api_key |-> FALSE]
    /\ index = {}
    /\ uuid = 0
    /\ InitStores
    /\ InitCtx

CacheNext ==
    \/ \E u \in CacheUsers : Call(u, PyNone)
    \/ \E l \in Layers : CreateTask(l)
    \/ AwaitGather
    \/ ChStart \/ ChGetDone
    \/ KbStart \/ KbCacheGetDone \/ KbDbDone \/ KbCacheSetDone
    \/ WmStart \/ WmMessagesDone \/ WmStateDone
    \/ EpStart
    \/ Return
    \/ \E u \in CacheUsers, n \in 1..MaxQuestions : StartOnboarding(u, n)
    \/ \E u \in CacheUsers, a \in Answers : ObAnswer(u, a)
    \/ ObGetSessionDone \/ ObSaveProgressDone \/ ObSaveCompletedDone
    \/ ObExtractDone \/ ObKbGetDone \/ ObKbSetDone \/ ObSummarySetDone

CacheSpec == CacheInit /\ [][CacheNext]_vars

\* context building next to the extraction jobs that fill the index
MemoryInit ==
    /\ settings = [pinecone_api_key |-> TRUE, openai_api_key |-> TRUE]
    /\ index = {}
    /\ uuid = 0
    /\ InitStores
    /\ InitCtx

\* the user whose context is built, with a query; the jobs run for every user
MemoryReaders == {"1"}

MemoryNext ==
    \/ \E u \in MemoryReaders : Call(u, PyStr(<<"q">>))
    \/ \E l \in Layers : CreateTask(l)
    \/ AwaitGather
    \/ TaskStep
    \/ Return
    \/ \E u \in Users : XfStart(u)
    \/ XfExtractDone \/ XfKbGetDone \/ XfKbSetDone \/ XfEmbedDone

MemorySpec == MemoryInit /\ [][MemoryNext]_vars

\* batches of /kb/apply submitted one after the other by a single caller,
\* on empty knowledge tables
ApplyInit ==
    /\ settings = [pinecone_api_key |-> FALSE, openai_api_key |-> FALSE]
    /\ user_rows = {UserRow("1")}
    /\ tables = EmptyTables
    /\ redis = InitRedis
    /\ index = {}
    /\ uuid = 0
    /\ ob = ObIdle("none")
    /\ xf = XfIdle
    /\ audit = <<>>
    /\ clock = 1
    /\ ap = [c \in Callers |-> ApIdle(NoResponse)]
    /\ budget = MaxUpdates
    /\ InitSide
    /\ InitCtx

SingleCaller == "c1"

ApplyNext ==
    \/ \E n \in 0..MaxBatch : BeginApply(SingleCaller, n)
    \/ LookupDone(SingleCaller)
    \/ ConvDone(SingleCaller)
    \/ CommitInsertDone(SingleCaller)
    \/ CommitUpdateDone(SingleCaller)

ApplySpec == ApplyInit /\ [][ApplyNext]_vars

\* a first update already applied: its row and its audit entry
SeedUpdate ==
    [domain |-> "identity", user_id |-> "1", field_name |-> "name", field_value |-> "Ann",
     confidence |-> 500000, source |-> "conversation", conversation_id |-> <<>>]
SeededTables ==
    [EmptyTables EXCEPT ![SeedUpdate.domain] =
        {KRow(1, SeedUpdate.user_id, SeedUpdate.field_name, SeedUpdate.field_value,
              SeedUpdate.confidence, SeedUpdate.source, 1)}]

\* two callers of /kb/apply on tables that are empty or hold a first row
ConcurrentInit ==
    /\ settings = [pinecone_api_key |-> FALSE, openai_api_key |-> FALSE]
    /\ user_rows = {UserRow("1")}
    /\ \/ tables = EmptyTables /\ audit = <<>> /\ clock = 1
       \/ /\ tables = SeededTables
          /\ audit = <<UpdateLog(SeedUpdate, <<>>, SeedUpdate.field_value, 1)>>
          /\ clock = 2
    /\ redis = InitRedis
    /\ index = {}
    /\ uuid = 0
    /\ ob = ObIdle("none")
    /\ xf = XfIdle
    /\ ap = [c \in Callers |-> ApIdle(NoResponse)]
    /\ budget = MaxUpdates - 1
    /\ InitSide
    /\ InitCtx

\* their requests interleave at the awaits
ConcurrentNext ==
    \E c \in Callers :
        \/ \E n \in 1..MaxBatch : BeginApply(c, n)
        \/ LookupDone(c)
        \/ ConvDone(c)
        \/ CommitInsertDone(c)
        \/ CommitUpdateDone(c)

ConcurrentSpec == ConcurrentInit /\ [][ConcurrentNext]_vars

\* calls of extract_facts, with and without a key for the model
ExtractInit ==
    /\ settings \in [pinecone_api_key : {FALSE}, openai_api_key : BOOLEAN]
    /\ index = {}
    /\ uuid = 0
    /\ InitStores
    /\ InitCtx

ExtractNext ==
    \/ \E t \in Transcripts : EfCall(t)
    \/ EfPostDone

ExtractSpec == ExtractInit /\ [][ExtractNext]_vars

\* check-in requests and scheduled tasks of one user on one day
NotifyInit ==
    /\ settings = [pinecone_api_key |-> FALSE, openai_api_key |-> FALSE]
    /\ index = {}
    /\ uuid = 0
    /\ user_rows = {UserRow("1")}
    /\ tables = SampleTables
    /\ audit = <<>>
    /\ clock = 4
    /\ ap = [c \in Callers |-> ApIdle(NoResponse)]
    /\ budget = 0
    /\ redis = InitRedis
    /\ ob = ObIdle("none")
    /\ xf = XfIdle
    /\ InitCtx
    /\ ef = EfIdle /\ ws = WsIdle /\ kb = KbIdle
    /\ nt \in {[NtIdle EXCEPT !.tokens = t] : t \in BOOLEAN}

NotifyNext ==
    \/ \E p \in NtProcs, kind \in {"checkin", "task"} : NtStart(p, kind)
    \/ \E p \in NtProcs : NtSmembers(p)
    \/ \E p \in NtProcs : NtGet(p)
    \/ \E p \in NtProcs : NtRpush(p)
    \/ \E p \in NtProcs : NtExpirePending(p)
    \/ \E p \in NtProcs : NtIncr(p)
    \/ \E p \in NtProcs : NtExpireCounter(p)
    \/ \E p \in NtProcs : NtRaise(p)

NotifySpec == NotifyInit /\ [][NotifyNext]_vars

\* the requests on kb_entries next to onboarding, on an empty list
KbInit ==
    /\ settings = [pinecone_api_key |-> FALSE, openai_api_key |-> FALSE]
    /\ index = {}
    /\ uuid = 0
    /\ InitStores
    /\ InitCtx

KbNext ==
    \/ \E p \in KbProcs, op \in KbOps, n \in 1..MaxUuid : KbCall(p, op, Uuid(n))
    \/ \E p \in KbProcs : KbGetDone(p)
    \/ \E p \in KbProcs : KbSetDone(p)
    \/ \E n \in 1..MaxQuestions : StartOnboarding(KbUser, n)
    \/ \E a \in Answers : ObAnswer(KbUser, a)
    \/ ObGetSessionDone \/ ObSaveProgressDone \/ ObSaveCompletedDone
    \/ ObExtractDone \/ ObKbGetDone \/ ObKbSetDone \/ ObSummarySetDone

KbSpec == KbInit /\ [][KbNext]_vars

\* the answer submissions of one user, one after the other
OnboardingInit ==
    /\ settings = [pinecone_api_key |-> FALSE, openai_api_key |-> FALSE]
    /\ index = {}
    /\ uuid = 0
    /\ InitStores
    /\ InitCtx

OnboardingNext ==
    \/ \E n \in 1..MaxQuestions : StartOnboarding(KbUser, n)
    \/ \E a \in SubmittedAnswers : ObAnswer(KbUser, a)
    \/ ObGetSessionDone \/ ObSaveProgressDone \/ ObSaveCompletedDone
    \/ ObExtractDone \/ ObKbGetDone \/ ObKbSetDone \/ ObSummarySetDone

OnboardingSpec == OnboardingInit /\ [][OnboardingNext]_vars

\* one voice connection, in every configuration of the keys and of test_mode
VoiceInit ==
    /\ settings \in [pinecone_api_key : {FALSE}, openai_api_key : BOOLEAN,
                     deepgram_api_key : BOOLEAN, elevenlabs_api_key : BOOLEAN,
                     test_mode : BOOLEAN]
    /\ index = {}
    /\ uuid = 0
    /\ InitStores
    /\ InitCtx

VoiceNext ==
    \/ WsConnect
    \/ WsDisconnect
    \/ \E f \in Frames : WsFrame(f)
    \/ WsReceiveDisconnect
    \/ WsSend
    \/ WsDeepgramDone
    \/ WsWhisperDone
    \/ WsContextDone
    \/ WsContextHangs
    \/ WsLlmStart
    \/ WsLlmSend
    \/ WsTtsDone
    \/ WsTtsSend
    \/ WsSendError

VoiceSpec == VoiceInit /\ [][VoiceNext]_vars

\* the event loop keeps running the handler
VoiceFairSpec == VoiceSpec /\ WF_vars(WsHandler)

\* ------------------------------------------------------------------- claims
Field(l) == DictGet(bundle, l)
FailedLayers == {l \in Layers : failed[l]}

\* C1: build_context never fails as a whole: whatever the user, the query
\* (present, empty, absent) and the outcome of each fetch (value, empty,
\* exception), it returns a dict with exactly the keys character,
\* knowledge_summary, working_memory and episodic.
C1_NeverFails ==
    /\ pc # "raised"
    /\ pc = "returned" =>
          /\ bundle.kind = "dict"
          /\ Len(bundle.items) = 4
          /\ {bundle.items[i][1] : i \in 1..4} = Layers

C1_Witness ==
    /\ pc = "returned"
    /\ tres["character"].kind = "exc"
    /\ req.query = PyNone

\* the documented empty default of a layer
EmptyDefault(l) ==
    CASE l = "character" -> PyDict(<<>>)
      [] l = "knowledge_summary" -> PyDict(<<>>)
      [] l = "working_memory" -> PyDict(<< <<"messages", PyList(<<>>)>>, <<"state", PyNone>> >>)
      [] l = "episodic" -> PyList(<<>>)

\* C2: when the fetch of a layer raised, the field of that layer in the
\* returned bundle is the documented empty default of the layer.
C2_FailedLayerDefault ==
    pc = "returned" => \A l \in Layers : failed[l] => Field(l) = EmptyDefault(l)

\* the values the fetch of a layer can return from the stores alone
OwnValues(l) ==
    CASE l = "character" -> {FetchCharacter(user_rows, req.user_id)}
      [] l = "working_memory" ->
            {WorkingMemory(GetMessages(redis, req.user_id, MSG_LIMIT),
                           GetUserState(redis, req.user_id))}
      [] l = "knowledge_summary" ->
            IF observed.read /\ observed.cache.present
               /\ Len(Loads(observed.cache.data).items) > 0
            THEN {PyDict(<< <<"summary", Loads(observed.cache.data)>> >>)}
            ELSE {SummaryDict(Summary(r)) : r \in QueryResults(tables, req.user_id, 1)}
      [] l = "episodic" ->
            IF ~settings.pinecone_api_key \/ ~settings.openai_api_key
               \/ req.query \in {PyNone, PyStr(<<>>)}
            THEN {PyList(<<>>)}
            ELSE SearchMemories(settings, index, TOP_K, "default")

\* C3: when exactly one layer's fetch failed, the task of each other layer
\* ran to its end and the bundle holds, for each of them, exactly the value
\* its own fetch returned, in every interleaving of the four tasks.
C3_FailureIsolation ==
    (pc = "returned" /\ Cardinality(FailedLayers) = 1) =>
        \A l \in Layers \ FailedLayers :
            /\ tpc[l] = "done"
            /\ Field(l) = tres[l]
            /\ tres[l] \in OwnValues(l)

C3_Witness ==
    /\ pc = "returned"
    /\ FailedLayers = {"working_memory"}
    /\ Truthy(Field("character"))
    /\ Truthy(DictGet(Field("knowledge_summary"), "summary"))
    /\ Truthy(Field("episodic"))

\* C4: fan-out/fan-in barrier: no task has run before all four were
\* created, a created task can start whatever the progress of the others,
\* and build_context has returned only if all four tasks have ended.
C4_Barrier ==
    /\ \A l \in Layers :
          tpc[l] \notin {"notcreated", "ready"} => Created(tpc) = Layers /\ pc # "create"
    /\ pc = "gather" =>
          /\ tpc["character"] = "ready" => ENABLED ChStart
          /\ tpc["knowledge_summary"] = "ready" => ENABLED KbStart
          /\ tpc["working_memory"] = "ready" => ENABLED WmStart
          /\ tpc["episodic"] = "ready" => ENABLED EpStart
    /\ pc \in {"returned", "raised"} => \A l \in Layers : tpc[l] \in {"done", "failed"}

C4_Witness ==
    /\ pc = "gather"
    /\ \A l \in Layers : tpc[l] \in AwaitStates

\* C8: with an empty or absent query, or an unconfigured index, neither the
\* embedding provider nor the index search is called during the call, and
\* the episodic layer is the empty list.
C8_EpisodicShortCircuit ==
    (pc # "idle" /\ (~settings.pinecone_api_key \/ req.query \in {PyNone, PyStr(<<>>)})) =>
        /\ calls.embed = 0
        /\ calls.search = 0
        /\ tpc["episodic"] \in {"notcreated", "ready", "done"}
        /\ tpc["episodic"] = "done" => tres["episodic"] = PyList(<<>>)
        /\ pc = "returned" => Field("episodic") = PyList(<<>>)

C8_Witness ==
    /\ pc = "returned"
    /\ settings.pinecone_api_key /\ settings.openai_api_key
    /\ req.query = PyStr(<<>>)
    /\ Field("episodic") = PyList(<<>>)

\* the event loop gives every runnable task its turn, and a call that is
\* not hung completes
Fairness ==
    /\ WF_vars(\E l \in Layers : CreateTask(l))
    /\ WF_vars(AwaitGather)
    /\ WF_vars(ChStart \/ ChGetDone)
    /\ WF_vars(KbStart \/ KbCacheGetDone \/ KbDbDone \/ KbCacheSetDone)
    /\ WF_vars(WmStart \/ WmMessagesDone \/ WmStateDone)
    /\ WF_vars(EpStart \/ EpEmbedDone)
    /\ WF_vars(Return)

FairSpec == Init /\ [][Next]_vars /\ Fairness

\* C5: once the overall deadline has elapsed while build_context waits for
\* its layers, build_context returns, with the empty default for every
\* layer that has not completed (a fetch that never completes included).
C5_SoftDeadline ==
    (pc = "gather" /\ deadline) ~>
        (pc = "returned" /\ \A l \in Layers : tpc[l] = "hung" => Field(l) = EmptyDefault(l))

\* the entry is the encoding of a non-empty string
HoldsNonEmptyString(e) ==
    /\ e.present
    /\ \E tokens \in {e.data[2].items} : Len(tokens) > 0 /\ e.data = Dumps(PyStr(tokens))

\* C6: whenever the kb_summary entry read by the knowledge-summary
\* resolution holds a non-empty string, the resolution returns that string
\* as it is, queries none of the six domain tables and writes no cache entry.
C6_CacheHit ==
    (observed.read /\ HoldsNonEmptyString(observed.cache)) =>
        /\ tpc["knowledge_summary"] = "done"
        /\ tres["knowledge_summary"] = PyDict(<< <<"summary", observed.cache.data[2]>> >>)
        /\ calls.db = 0
        /\ calls.cache_set = 0
        /\ pc = "returned" => Field("knowledge_summary") = tres["knowledge_summary"]

\* a hit on the summary that onboarding wrote
C6_Witness ==
    /\ pc = "returned"
    /\ observed.read
    /\ HoldsNonEmptyString(observed.cache)
    /\ observed.cache.ttl = DEFAULT_TTL

\* C7: every kb_summary entry, whoever wrote it (the cache-miss write-back
\* of the context builder, the summary of a completed onboarding), carries
\* a TTL of at most 3600 seconds, so that no value outlives one hour.
C7_SummaryTtl ==
    \A u \in Users :
        redis[WorkingKey(u, "kb_summary")].present =>
            redis[WorkingKey(u, "kb_summary")].ttl <= 3600

\* the owners named by the matches of an episodic list
Owners(episodic) ==
    {DictGet(DictGet(episodic.items[i], "metadata"), "user_id").items[1] :
        i \in 1..Len(episodic.items)}

\* C9: the episodic list build_context returns for a user holds no entry
\* that was stored for another user, whatever the query.
C9_EpisodicScoped ==
    pc = "returned" => Owners(Field("episodic")) \subseteq {req.user_id}

\* C10: after any sequence of apply_updates batches of a single caller,
\* each domain table holds at most one row per (user_id, field_name).
C10_OneRowPerField ==
    \A d \in DomainSet : \A r1, r2 \in tables[d] :
        (r1.user_id = r2.user_id /\ r1.field_name = r2.field_name) => r1 = r2

\* C11: when the requests of two callers have ended, each domain table
\* holds a single record per (user_id, field_name), and its value is the
\* one of the entry the audit log received last for that key.
Quiescent == \A c \in Callers : ap[c].pc = "idle"
LastLogged(d, r) ==
    LET entries == {i \in 1..Len(audit) : /\ audit[i].table_name = d
                                          /\ audit[i].user_id = r.user_id
                                          /\ audit[i].field_name = r.field_name}
        last == CHOOSE i \in entries : \A j \in entries : j <= i
    IN audit[last].new_value
C11_LastWriteWins ==
    Quiescent =>
        \A d \in DomainSet : \A r1, r2 \in tables[d] :
            /\ (r1.user_id = r2.user_id /\ r1.field_name = r2.field_name) => r1 = r2
            /\ <<r1.field_value>> = LastLogged(d, r1)

\* the value of the local counter `applied` of a request, ended or not
Counted(a) == IF a.pc = "idle" THEN a.resp.counted ELSE a.applied

\* the step has taken a turn of the request of caller c
Stepped(c) == ap'[c] # ap[c]

\* the step appends one audit entry for update u, with this old value
Logged(u, old_val) ==
    /\ Len(audit') = Len(audit) + 1
    /\ SubSeq(audit', 1, Len(audit)) = audit
    /\ LET e == audit'[Len(audit')]
       IN /\ e.user_id = u.user_id /\ e.table_name = u.domain
          /\ e.field_name = u.field_name /\ e.conversation_id = u.conversation_id
          /\ e.old_value = old_val /\ e.new_value = <<u.field_value>>
          /\ e.confidence = u.confidence /\ e.source = u.source

\* the row carries the value, confidence and source of update u
Carries(r, u) ==
    /\ r.user_id = u.user_id /\ r.field_name = u.field_name
    /\ r.field_value = u.field_value /\ r.confidence = u.confidence
    /\ r.source = u.source

\* the step inserts one record for the update of caller c, logs it with
\* old_value = null and counts it
InsertedBy(c) ==
    LET u == ap[c].u
    IN /\ \E r \in tables'[u.domain] \ tables[u.domain] :
             /\ tables' = [tables EXCEPT ![u.domain] = @ \cup {r}]
             /\ Carries(r, u)
       /\ Logged(u, <<>>)
       /\ Counted(ap'[c]) = ap[c].applied + 1

\* the request of caller c ends with the error of its commit, and neither
\* the tables nor the audit log have changed
CommitFailed(c) ==
    /\ ap'[c].pc = "idle" /\ ap'[c].resp.status = "500"
    /\ tables' = tables /\ audit' = audit

NoRecord(c) == Matching(tables, ap[c].u) = {}

ExceedsExisting(c) ==
    /\ ~NoRecord(c)
    /\ \A r \in Matching(tables, ap[c].u) : HigherConfidence(ap[c].u.confidence, r.confidence)

\* the step overwrites one record of the key in place with the update of
\* caller c, stamps it with the apply time, logs its prior value and counts
OverwrittenBy(c) ==
    LET u == ap[c].u
    IN /\ \E r0 \in Matching(tables, u) :
             /\ tables' = [tables EXCEPT ![u.domain] =
                    (@ \ {r0}) \cup {KRow(r0.id, r0.user_id, r0.field_name, u.field_value,
                                          u.confidence, u.source, ap[c].stamp)}]
             /\ Logged(u, <<r0.field_value>>)
       /\ ap[c].stamp >= clock - 1
       /\ Counted(ap'[c]) = ap[c].applied + 1

Committing(c) == ap[c].pc \in {"commit_insert", "commit_update"}

\* C13: when a record exists and the incoming confidence exceeds its
\* confidence by more than epsilon, the update goes to the overwrite whatever
\* its conversation_id and the timestamps, and its commit, unless it raises,
\* overwrites the record in place with the update's value, confidence and
\* source, sets last_updated to the apply time, logs the prior value as
\* old_value and counts the update.
C13_HigherOverwrites ==
    [][\A c \in Callers :
        /\ (ap[c].pc = "lookup" /\ ExceedsExisting(c) /\ Stepped(c))
              => ap'[c].pc = "commit_update"
        /\ (Committing(c) /\ ExceedsExisting(c) /\ Stepped(c))
              => (OverwrittenBy(c) \/ CommitFailed(c))]_vars

\* every record of the key has the confidence of the update, within
\* epsilon, and the update names a conversation
TiesExisting(c) ==
    /\ ~NoRecord(c)
    /\ \A r \in Matching(tables, ap[c].u) : TieWithConversation(ap[c].u, r.confidence)

\* the conversation of the update was created strictly after the last
\* update of every record of the key
LaterConversation(c) ==
    \A r \in Matching(tables, ap[c].u) : MoreRecent(Conversations, ap[c].u.conversation_id, r)

\* C14: when the incoming confidence equals the existing one within epsilon
\* and a conversation_id is supplied, the update goes to the tie-break, it
\* reaches its commit only if the conversation was created strictly after the
\* record's last_updated, and what it commits is the overwrite of the record.
C14_RecencyTieBreak ==
    [][\A c \in Callers :
        /\ (ap[c].pc = "lookup" /\ TiesExisting(c) /\ Stepped(c))
              => ap'[c].pc = "conv"
        /\ (ap[c].pc = "conv" /\ TiesExisting(c) /\ ap'[c].pc = "commit_update")
              => LaterConversation(c)
        /\ (Committing(c) /\ TiesExisting(c) /\ Stepped(c))
              => \/ LaterConversation(c) /\ OverwrittenBy(c)
                 \/ CommitFailed(c)]_vars

\* the update has a lower confidence than every record of the key, or an
\* equal one (within epsilon) and no conversation_id
Discardable(c) ==
    /\ ~NoRecord(c)
    /\ \A r \in Matching(tables, ap[c].u) :
          \/ ap[c].u.confidence < r.confidence - EPSILON
          \/ /\ ap[c].u.confidence - r.confidence <= EPSILON
             /\ r.confidence - ap[c].u.confidence <= EPSILON
             /\ ap[c].u.conversation_id = <<>>

\* C15: while a request processes an update of lower confidence than the
\* existing record, or of equal confidence without a conversation_id, no
\* step of it changes a record or the audit log, the count of applied
\* updates stays and no error ends the request.
C15_DiscardChangesNothing ==
    [][\A c \in Callers :
        (ap[c].pc # "idle" /\ Discardable(c) /\ Stepped(c))
            => /\ tables' = tables
               /\ audit' = audit
               /\ Counted(ap'[c]) = Counted(ap[c])
               /\ ap'[c].resp.status # "500"]_vars

\* the conversation of the update does not exist or has no created_at
NoUsableConversation(c) ==
    ~\E cv \in Conversations :
        cv.id = ap[c].u.conversation_id[1] /\ cv.created_at # <<>>

\* the loop goes on after the update of caller c: to the lookup of the
\* next update, to the rejection of its domain, or to the return of the count
GoesOn(c) ==
    IF ap[c].left = 0
    THEN ap'[c].pc = "idle" /\ ap'[c].resp = Response("200", ap[c].applied, ap[c].applied, 0)
    ELSE \/ ap'[c].pc = "lookup" /\ ap'[c].left = ap[c].left - 1
         \/ ap'[c].pc = "idle" /\ ap'[c].resp.status = "400"

\* C16: a tie-break whose conversation lookup fails (it raises, or finds no
\* conversation, or one without created_at) does not update: the update does
\* not reach a commit, the records and the audit log are unchanged, the count
\* stays, no error ends the request and the loop goes on.
C16_TieBreakFailureSwallowed ==
    [][\A c \in Callers :
        (ap[c].pc = "conv" /\ Stepped(c))
            => /\ NoUsableConversation(c) => ap'[c].pc # "commit_update"
               /\ ap'[c].pc # "commit_update"
                     => /\ tables' = tables /\ audit' = audit
                        /\ Counted(ap'[c]) = ap[c].applied
                        /\ ap'[c].resp.status # "500"
                        /\ GoesOn(c)]_vars

\* the conversation lookup of an update raised, or found nothing usable,
\* and the request went on to its next update with its count unchanged
C16_Witness ==
    \E c \in Callers :
        /\ ap[c].last \in {"conv_raised", "not_recent"}
        /\ ap[c].pc = "lookup"
        /\ ap[c].applied = 0
        /\ Len(audit) = 1

\* the audit entry e is the one of the record r, as inserted or overwritten
EntryOf(e, d, r) ==
    /\ e.table_name = d /\ e.user_id = r.user_id /\ e.field_name = r.field_name
    /\ e.new_value = <<r.field_value>> /\ e.confidence = r.confidence
    /\ e.source = r.source /\ e.created_at = r.last_updated

\* the step changes one record (a new one, or one replaced under its id)
\* and appends the audit entry of that record
MutatedWithEntry ==
    /\ Len(audit') = Len(audit) + 1
    /\ SubSeq(audit', 1, Len(audit)) = audit
    /\ \E d \in DomainSet : \E r \in tables'[d] \ tables[d] :
          /\ tables' = [tables EXCEPT ![d] = {x \in @ : x.id # r.id} \cup {r}]
          /\ EntryOf(audit'[Len(audit')], d, r)

\* C17: a step either leaves the records and the audit log as they are (so
\* does a commit that raises) or changes one record together with its audit
\* entry.
C17_AtomicApply ==
    [][\/ tables' = tables /\ audit' = audit
       \/ MutatedWithEntry]_vars

\* a commit has raised after an insert and an overwrite were committed
C17_Witness ==
    /\ \E c \in Callers : ap[c].resp.status = "500"
    /\ Len(audit) = 2
    /\ audit[2].old_value # <<>>

\* the records the step has inserted or overwritten
RowsChanged == UNION {tables'[d] \ tables[d] : d \in DomainSet}

SameUpdate(e1, e2) ==
    /\ e1.table_name = e2.table_name /\ e1.user_id = e2.user_id
    /\ e1.field_name = e2.field_name /\ e1.new_value = e2.new_value
    /\ e1.confidence = e2.confidence
    /\ e1.conversation_id = <<>> /\ e2.conversation_id = <<>>

\* C19: an update applied right after the same update was applied is a
\* no-op: no step appends an audit entry that repeats the last one, and the
\* key keeps one record.
C19_Idempotent ==
    [][(Len(audit') > Len(audit) /\ audit # <<>>)
          => ~SameUpdate(audit[Len(audit)], audit'[Len(audit')])]_vars

\* C20: an update of an unknown domain is rejected by itself: when a batch
\* that held one has ended, every other update of the batch has been
\* processed, and the updates applied are counted in what is returned, as
\* they would be without it.
C20_UnknownDomainPerItem ==
    \A c \in Callers :
        (ap[c].pc = "idle" /\ ap[c].resp.status = "400")
            => /\ ap[c].resp.skipped = 0
               /\ ap[c].resp.applied = ap[c].resp.counted

\* the commit of the update of caller c raises in this step
CommitRaises(c) ==
    /\ Committing(c) /\ Stepped(c)
    /\ tables' = tables /\ audit' = audit

\* C21: a commit that raises is the failure of its update only: the records
\* and audit entries already written stay, the request does not end with the
\* error, and the loop goes on to the next update or to the return of the
\* count.
C21_CommitFailureIsolated ==
    [][\A c \in Callers :
        CommitRaises(c) => /\ ap'[c].resp.status # "500"
                           /\ GoesOn(c)]_vars

\* the key of the update the request of caller c submitted before the one
\* it is at, when that one was committed: the last audit entry is its entry
SameKeyAsPrevious(c) ==
    /\ ap[c].last \in {"inserted", "overwritten"}
    /\ Len(audit) > ap[c].base
    /\ audit[Len(audit)].table_name = ap[c].u.domain
    /\ audit[Len(audit)].user_id = ap[c].u.user_id
    /\ audit[Len(audit)].field_name = ap[c].u.field_name

\* the record the previous update of the batch left
LeftByPrevious(c) ==
    {r \in tables[ap[c].u.domain] : EntryOf(audit[Len(audit)], ap[c].u.domain, r)}

\* the lookup step of caller c resolves its update against record r
ResolvedAgainst(c, r) ==
    LET u == ap[c].u
    IN IF HigherConfidence(u.confidence, r.confidence)
       THEN ap'[c].pc = "commit_update" /\ ap'[c].existing = <<r>>
       ELSE IF TieWithConversation(u, r.confidence)
       THEN ap'[c].pc = "conv" /\ ap'[c].existing = <<r>>
       ELSE ap'[c].last = "discarded" /\ Counted(ap'[c]) = ap[c].applied

\* C22: the updates of a batch are taken one after the other, each after the
\* commit of the one before it, and the lookup of an update whose key is the
\* key of the update committed just before it in the same batch resolves it
\* against the record that update left (its value, confidence, last_updated).
C22_SecondSeesFirst ==
    [][\A c \in Callers :
        /\ (ap[c].pc # "idle" /\ ap'[c].pc = "lookup" /\ Stepped(c))
              => /\ ap[c].pc \in {"lookup", "conv", "commit_insert", "commit_update"}
                 /\ ap'[c].left = ap[c].left - 1
        /\ (ap[c].pc = "lookup" /\ SameKeyAsPrevious(c) /\ Stepped(c))
              => /\ LeftByPrevious(c) # {}
                 /\ \E r \in LeftByPrevious(c) : ResolvedAgainst(c, r)]_vars

\* the records of all domain tables
AllRows(tbls) == UNION {tbls[d] : d \in DomainSet}

\* the records of the key of r in domain d
SameKey(tbls, d, r) ==
    {x \in tbls[d] : x.user_id = r.user_id /\ x.field_name = r.field_name}

\* the highest confidence among a set of records
MaxConfidence(rows) ==
    CHOOSE m \in {x.confidence : x \in rows} : \A x \in rows : x.confidence <= m

\* every record stays, with a confidence that has not decreased by more
\* than epsilon, and so does the highest confidence stored for each key
ConfidenceKept ==
    /\ \A r \in AllRows(tables) : \E x \in AllRows(tables') :
          x.id = r.id /\ x.confidence >= r.confidence - EPSILON
    /\ \A d \in DomainSet : \A r \in tables[d] :
          /\ SameKey(tables', d, r) # {}
          /\ MaxConfidence(SameKey(tables', d, r))
                >= MaxConfidence(SameKey(tables, d, r)) - EPSILON

\* the step overwrites record r with another value
OverwrittenWithOtherValue(r, x) ==
    x.id = r.id /\ x.field_value # r.field_value

History(d, u, f) ==
    SelectSeq(audit, LAMBDA e : e.table_name = d /\ e.user_id = u /\ e.field_name = f)

\* the keys the audit log or the tables know
Keys ==
    {<<audit[i].table_name, audit[i].user_id, audit[i].field_name>> : i \in 1..Len(audit)}
    \cup UNION {{<<d, r.user_id, r.field_name>> : r \in tables[d]} : d \in DomainSet}

\* C29: for every key, the first audit entry has old_value = null, each
\* later entry's old_value is the new_value of the entry before it, and the
\* new_value of the latest entry is the field_value of the key's record.
C29_AuditIsHistory ==
    \A k \in Keys :
        LET h == History(k[1], k[2], k[3])
            rows == {r \in tables[k[1]] : r.user_id = k[2] /\ r.field_name = k[3]}
        IN /\ Len(h) > 0
           /\ h[1].old_value = <<>>
           /\ \A i \in 2..Len(h) : h[i].old_value = h[i - 1].new_value
           /\ \A r \in rows : <<r.field_value>> = h[Len(h)].new_value

\* the facts the model-based path yielded in the call that has ended
ModelFacts ==
    IF ef.path = "openai" THEN ef.result.items ELSE <<>>

\* C23: extract_facts never raises and returns a list, whatever the
\* transcript and the outcome of the model-based path; when that path yields
\* no facts the result is that of the rule-based fallback (facts of source
\* rule_fallback and confidence 0.4), and the empty list when the fallback
\* itself fails.
C23_NeverRaises ==
    /\ ef.pc # "raised"
    /\ ef.pc = "returned" =>
          /\ ef.result.kind = "list"
          /\ ModelFacts = <<>> =>
                /\ ef.path \in {"rules", "rules_failed"}
                /\ ef.path = "rules" => ef.result = RuleBasedExtract(ef.transcript)
                /\ \A i \in 1..Len(ef.result.items) :
                      /\ ef.result.items[i].source = "rule_fallback"
                      /\ ef.result.items[i].confidence = 400000
                /\ RuleBasedExtract(ef.transcript).kind = "exc" => ef.result = PyList(<<>>)

\* the model answered with an item whose confidence is not a number and the
\* transcript is not a string: both paths failed and [] was returned
C23_Witness ==
    /\ ef.pc = "returned"
    /\ ef.transcript = PyNone
    /\ ef.reply = [kind |-> "json", value |-> PyList(<<GoodItem, BadConfidenceItem>>)]
    /\ ef.path = "rules_failed"
    /\ ef.result = PyList(<<>>)

\* C26: the number of messages queued on pending_push for the user on the
\* day by jarvis_checkin and _queue_message_for_user together never exceeds
\* max_proactive_notifications_per_day, also when check-in requests and
\* scheduled tasks interleave between reading the counter and incrementing it.
C26_DailyLimit ==
    nt.queued <= max_proactive_notifications_per_day

\* C30: every entry that create_knowledge or memory_upsert returned as
\* stored, and that no delete_knowledge removed since, is in the user's
\* kb_entries, also when these requests, update_knowledge, delete_knowledge
\* and the completion of onboarding interleave.
C30_NoLostEntries ==
    kb.reported \subseteq
        EntryIds(PyOr(GetWorkingMemory(redis, KbUser, "kb_entries"), PyList(<<>>)).items)

\* the stored session of the user, and whether it is stored as completed
StoredSession(r) == GetWorkingMemory(r, KbUser, "onboarding")
StoredCompleted(r) ==
    Truthy(StoredSession(r)) /\ Truthy(DictGet(StoredSession(r), "completed"))

\* current_index is the number of answers, at most that of the questions,
\* and completed says that all questions are answered
SessionShape ==
    LET s == StoredSession(redis)
        idx == DictGet(s, "current_index").items[1]
    IN Truthy(s) =>
          /\ idx = Len(DictGet(s, "answers").items)
          /\ idx <= Len(DictGet(s, "questions").items)
          /\ Truthy(DictGet(s, "completed")) <=> idx = Len(DictGet(s, "questions").items)

\* facts are extracted and kb_entries written only by the submission that
\* has just stored the session as completed
OnlyOnCompletion ==
    /\ ob'.pc = "extract" /\ ob.pc # "extract" =>
          ~StoredCompleted(redis) /\ StoredCompleted(redis')
    /\ GetWorkingMemory(redis', KbUser, "kb_entries") # GetWorkingMemory(redis, KbUser, "kb_entries") =>
          ob.pc = "kb_set" /\ StoredCompleted(redis)

\* the submission that stored the session as completed does not end before
\* kb_entries is written
WrittenOnCompletion ==
    ob.pc \in {"extract", "kb_get", "kb_set"} => ob'.status # "500"

\* a submission on a completed session returns already_completed and
\* writes nothing
AfterCompletion ==
    ob.pc = "get_session" /\ StoredCompleted(redis) =>
        /\ ob'.status \in {"already_completed", "500"}
        /\ ob'.pc = "idle"
        /\ redis' = redis

\* C27: after any sequence of answer submissions made one after the other,
\* current_index equals the number of stored answers and is at most the
\* number of questions; completed is true exactly when current_index equals
\* the number of questions; fact extraction and the kb_entries write happen
\* exactly once, on the submission that completes the session; every
\* submission after completion returns already_completed and changes
\* neither the session nor kb_entries nor kb_summary.
C27_OnboardingSession ==
    /\ []SessionShape
    /\ [][OnlyOnCompletion /\ WrittenOnCompletion /\ AfterCompletion]_vars



\* C24: if the client disconnects at any point, while the handler waits for
\* a frame or during any stage of an utterance, the handler eventually leaves
\* its loop and ends through the break or one of its except clauses.
C24_DisconnectTerminates ==
    (ws.client = "gone") ~> (ws.pc = "closed" /\ ws.ended \in {"break", "disconnect", "error"})

\* the position events lead to in the order stt_start, stt_done,
\* context_built, llm_chunk*, llm_done, then tts_audio_chunk+ tts_audio_done
\* or final_text: 6 at its end, -1 when events leave it
RECURSIVE EventOrder(_, _)
EventOrder(events, at) ==
    IF Len(events) = 0 \/ at = -1 THEN at
    ELSE LET e == Head(events)
             to == CASE at = 0 /\ e = "stt_start" -> 1
                     [] at = 1 /\ e = "stt_done" -> 2
                     [] at = 2 /\ e = "context_built" -> 3
                     [] at = 3 /\ e = "llm_chunk" -> 3
                     [] at = 3 /\ e = "llm_done" -> 4
                     [] at \in {4, 5} /\ e = "tts_audio_chunk" -> 5
                     [] at = 5 /\ e = "tts_audio_done" -> 6
                     [] at = 4 /\ e = "final_text" -> 6
                     [] OTHER -> -1
         IN EventOrder(Tail(events), to)

\* the handler is through with the utterance whose marker it received
UtteranceOver ==
    /\ ws.events # <<>>
    /\ ws.pc = "closed" \/ ws.stage = "idle"

\* C25: after the client's end-of-utterance marker the server emits
\* stt_start, stt_done, context_built, the reply chunks followed by llm_done,
\* then tts_audio_chunk frames ended by tts_audio_done or a single
\* final_text, in that order; every audio chunk received before the marker
\* is acknowledged by exactly one ack_audio, and the audio buffer is empty
\* again when the next utterance starts.
C25_EventOrder ==
    ws.client = "connected" =>
        /\ EventOrder(ws.events, 0) # -1
        /\ UtteranceOver => EventOrder(ws.events, 0) = 6
        /\ ws.pc = "receive" => ws.acks = ws.chunks /\ ws.buffer = ws.chunks

====
